---- MODULE Spec2Model ----
(***************************************************************************)
(* Network Clarity: the service-worker request aggregator                  *)
(* (background/service-worker.ts), the domain utilities it classifies      *)
(* requests with (shared/utils.ts, shared/pii-detector.ts) and the         *)
(* DevTools panel feed (devtools/Panel.tsx).                               *)
(*                                                                         *)
(* Conventions.  An optional field (`x?: T`, or a value that may be        *)
(* `undefined`) is a sequence of length at most one: <<>> is undefined,    *)
(* <<v>> is the value v.  A hostname is the sequence of its dot-separated  *)
(* labels, as `split('.')` returns it; the empty string is <<"">>.         *)
(***************************************************************************)
EXTENDS Integers, Sequences, FiniteSets, Bags, TLC

VARIABLES
    tabData,        \* Map<number, TabData>: sessions per tab
    tabUrls,        \* Map<number, string>: last navigated URL per tab
    badgeText,      \* chrome.action badge text per tab
    response,       \* sendResponse payload of the message being handled
    lastEvent,      \* the event whose listener has just run (None when idle)
    \* devtools/Panel.tsx
    requests,           \* useState<NetworkRequest[]>
    harRequestMap,      \* Map<string, chrome.devtools.network.Request>
    responseCache,      \* useState<Map<string, string>>
    selectedRequest,    \* useState<NetworkRequest | null>
    responseBody,       \* useState<string | null>
    loadingBody,        \* useState(false)
    \* the inspected page, as the browser holds it
    inspectedUrl,       \* tab.url of the inspected tab
    navigations,        \* how many times the inspected page has navigated
    harLog,             \* the entries getHAR returns
    finished,           \* how many requestFinished events were delivered
    origin,             \* id of a panel record -> the page it was made on
    tabsGetPending,     \* chrome.tabs.get callbacks not yet called
    contentPending,     \* getContent callbacks not yet called
    getHARPending,      \* whether the getHAR callback is still to come
    raised,             \* whether the panel code that ran last threw
    \* shared/utils.ts, shared/pii-detector.ts, popup score
    call                \* the call of a pure function now in progress

aggVars == <<tabData, tabUrls, badgeText, response, lastEvent>>

panelVars == <<requests, harRequestMap, responseCache, selectedRequest,
               responseBody, loadingBody, inspectedUrl, navigations, harLog,
               finished, origin, tabsGetPending, contentPending, getHARPending,
               raised>>

vars == <<tabData, tabUrls, badgeText, response, lastEvent,
          requests, harRequestMap, responseCache, selectedRequest,
          responseBody, loadingBody, inspectedUrl, navigations, harLog,
          finished, origin, tabsGetPending, contentPending, getHARPending,
          raised, call>>

----------------------------------------------------------------------------
(* Bounds *)

MaxRecords == 2     \* records held by all sessions together
MaxFinished == 2    \* requestFinished events delivered to the panel
MaxNavigations == 2 \* navigations of the inspected page
MaxPending == 2     \* getContent callbacks a click may add to the pending ones
MaxLabels == 4      \* labels of a hostname passed to a domain utility
MaxUrlLabels == 3   \* labels of the hostname of a URL passed to isThirdParty
MaxTotalRequests == 20  \* totalRequests of the stats passed to the score
MaxTrackerCount == 6    \* trackerCount of the stats passed to the score
MaxFields == 2          \* fields of a content scanned for PII

----------------------------------------------------------------------------
(* Optional values and Map helpers *)

None == <<>>

Some(v) == <<v>>

MapHas(m, k) == k \in DOMAIN m

MapSet(m, k, v) == [x \in (DOMAIN m) \cup {k} |-> IF x = k THEN v ELSE m[x]]

MapDelete_keeps(m, k) == m

MapDelete(m, k) == [x \in (DOMAIN m) \ {k} |-> m[x]]

EmptyMap == [x \in {} |-> 0]

----------------------------------------------------------------------------
(* shared/utils.ts and shared/pii-detector.ts *)

EmptyHost == <<"">>

\* the hostnames of at most n labels over the labels S
HostsUpTo(S, n) == UNION {[1..k -> S] : k \in 1..n}

\* parts.join('.')
RECURSIVE join(_)
join(parts) ==
    IF Len(parts) = 1 THEN parts[1] ELSE parts[1] \o "." \o join(Tail(parts))

\* the URL of the root of a host
urlOf(host) == "https://" \o join(host) \o "/"

UrlLabels == {"www", "shop", "intranet", "co", "uk"}

UrlHosts == HostsUpTo(UrlLabels, MaxUrlLabels)

\* The URL strings that parse, each with what `new URL(u).hostname` yields
ParsedUrls ==
    {<<"https://www.shop.co.uk/", <<"www", "shop", "co", "uk">>>>,
     <<"https://cdn.shop.co.uk/app.js", <<"cdn", "shop", "co", "uk">>>>,
     <<"https://stats.doubleclick.net/pixel", <<"stats", "doubleclick", "net">>>>,
     <<"https://news.example.com/", <<"news", "example", "com">>>>}
    \cup {<<urlOf(host), host>> : host \in UrlHosts}

\* `new URL(u).hostname`; a URL outside the table does not parse (URL
\* throws).
URLTable ==
    [u \in {p[1] : p \in ParsedUrls} |-> (CHOOSE p \in ParsedUrls : p[1] = u)[2]]

getDomain(url) == IF url \in DOMAIN URLTable THEN URLTable[url] ELSE EmptyHost

\* String.prototype.toLowerCase on one label
LowerLabel(l) ==
    CASE l = "WWW" -> "www"
      [] l = "Shop" -> "shop"
      [] l = "DoubleClick" -> "doubleclick"
      [] OTHER -> l

toLowerCase(host) == [i \in 1..Len(host) |-> LowerLabel(host[i])]

\* replace(/^www\./, '')
stripWww(host) ==
    IF Len(host) >= 2 /\ host[1] = "www" THEN Tail(host) ELSE host

\* parts.slice(-n)
sliceLast(parts, n) ==
    IF Len(parts) <= n THEN parts ELSE SubSeq(parts, Len(parts) - n + 1, Len(parts))

twoPartTLDs ==
    {<<"co", "uk">>, <<"com", "au">>, <<"co", "nz">>,
     <<"co", "jp">>, <<"com", "br">>, <<"co", "in">>}

getBaseDomain(hostname) ==
    LET parts == stripWww(toLowerCase(hostname))
    IN  IF Len(parts) >= 3 /\ sliceLast(parts, 2) \in twoPartTLDs
        THEN sliceLast(parts, 3)
        ELSE IF Len(parts) >= 2
             THEN sliceLast(parts, 2)
             ELSE hostname

\* a comparison of the request's registrable domain with the page's
\* hostname without its www
isThirdParty_pageHost(requestUrl, pageUrl) ==
    LET requestDomain == getDomain(requestUrl)
        pageDomain == getDomain(pageUrl)
    IN  IF requestDomain = EmptyHost \/ pageDomain = EmptyHost
        THEN FALSE
        ELSE getBaseDomain(requestDomain) # stripWww(pageDomain)

isThirdParty(requestUrl, pageUrl) ==
    LET requestDomain == getDomain(requestUrl)
        pageDomain == getDomain(pageUrl)
    IN  IF requestDomain = EmptyHost \/ pageDomain = EmptyHost
        THEN FALSE
        ELSE getBaseDomain(requestDomain) # getBaseDomain(pageDomain)

\* The entries of the tracker set that a modelled hostname can reach.
TRACKER_DOMAINS ==
    {<<"google-analytics", "com">>,
     <<"doubleclick", "net">>,
     <<"googlesyndication", "com">>,
     <<"analytics", "google", "com">>}

\* a matcher without the parent-domain rule
isTrackerDomain_exactOnly(domain) ==
    stripWww(toLowerCase(domain)) \in TRACKER_DOMAINS

isTrackerDomain(domain) ==
    LET normalizedDomain == stripWww(toLowerCase(domain))
        parts == normalizedDomain
    IN  \/ normalizedDomain \in TRACKER_DOMAINS
        \/ \E i \in 1..(Len(parts) - 2) :
              SubSeq(parts, i + 1, Len(parts)) \in TRACKER_DOMAINS

classifyRequest(requestUrl, pageUrl) ==
    [isThirdParty |-> isThirdParty(requestUrl, pageUrl),
     isTracker |-> isTrackerDomain(getDomain(requestUrl)),
     domain |-> getDomain(requestUrl)]

----------------------------------------------------------------------------
(* background/service-worker.ts: the environment's inputs *)

Tabs == {1, 2}

\* webRequest events carry tabId -1 when no tab is involved
TabIds == Tabs \cup {-1}

RequestIds == {"r1", "r2"}

\* url, method, type and timeStamp of the onBeforeRequest details
BeginInputs ==
    {[url |-> "https://cdn.shop.co.uk/app.js", method |-> "GET",
      type |-> "script", timeStamp |-> 10],
     [url |-> "https://stats.doubleclick.net/pixel", method |-> "POST",
      type |-> "ping", timeStamp |-> 20]}

\* statusCode and timeStamp of the onCompleted details
CompletedInputs ==
    {[statusCode |-> 200, timeStamp |-> 25],
     [statusCode |-> 404, timeStamp |-> 40]}

\* tab.url of chrome.tabs.onUpdated; "" is a tab without a URL
NavUrls == {"", "https://www.shop.co.uk/"}

NavStatuses == {"loading", "complete"}

\* requestHeaders / responseHeaders of the header events: undefined, or a
\* list of HttpHeader whose value may itself be undefined
RequestHeaderInputs ==
    {None,
     Some(<<[name |-> "Cookie", value |-> None]>>)}

ResponseHeaderInputs ==
    {None,
     Some(<<[name |-> "Content-Type", value |-> Some("text/html")],
            [name |-> "content-length", value |-> None]>>)}

\* String.prototype.toLowerCase on a header name
lowerName(n) ==
    CASE n = "Content-Type" -> "content-type"
      [] n = "Content-Length" -> "content-length"
      [] OTHER -> n

\* parseInt(s, 10) on the strings a content-length header carries
parseInt(s) ==
    CASE s = "0" -> 0
      [] s = "512" -> 512
      [] OTHER -> -1

----------------------------------------------------------------------------
(* background/service-worker.ts: the handlers, as functions of the maps *)

ZeroStats ==
    [totalRequests |-> 0,
     firstPartyCount |-> 0,
     thirdPartyCount |-> 0,
     trackerCount |-> 0,
     trackerDomains |-> <<>>,
     uniqueDomains |-> <<>>]

initTabData_keepsRecords(td, tabId, pageUrl) ==
    IF MapHas(td, tabId)
    THEN [td EXCEPT ![tabId].pageUrl = pageUrl,
                    ![tabId].pageDomain = getDomain(pageUrl)]
    ELSE MapSet(td, tabId,
                [requests |-> <<>>,
                 stats |-> ZeroStats,
                 pageUrl |-> pageUrl,
                 pageDomain |-> getDomain(pageUrl)])

\* an initialisation that keeps no other session
initTabData_alone(td, tabId, pageUrl) ==
    MapSet(EmptyMap, tabId,
           [requests |-> <<>>,
            stats |-> ZeroStats,
            pageUrl |-> pageUrl,
            pageDomain |-> getDomain(pageUrl)])

initTabData(td, tabId, pageUrl) ==
    MapSet(td, tabId,
           [requests |-> <<>>,
            stats |-> ZeroStats,
            pageUrl |-> pageUrl,
            pageDomain |-> getDomain(pageUrl)])

\* Array.from(set) after adding the elements of s in order: the distinct
\* elements of s in order of first occurrence
arrayFromSet(s) ==
    LET F[i \in 0..Len(s)] ==
            IF i = 0 THEN <<>>
            ELSE IF \E j \in 1..(i - 1) : s[j] = s[i]
                 THEN F[i - 1]
                 ELSE Append(F[i - 1], s[i])
    IN  F[Len(s)]

updateStats_countsOnly(data) ==
    [data EXCEPT !.stats.totalRequests = Len(data.requests)]

updateStats(data) ==
    LET reqs == data.requests
        isTrk(r) == r.isTracker
        is3p(r) == r.isThirdParty
        is1p(r) == ~r.isThirdParty
        trk == SelectSeq(reqs, isTrk)
    IN  [data EXCEPT !.stats =
            [totalRequests |-> Len(reqs),
             firstPartyCount |-> Len(SelectSeq(reqs, is1p)),
             thirdPartyCount |-> Len(SelectSeq(reqs, is3p)),
             trackerCount |-> Len(trk),
             trackerDomains |-> arrayFromSet([i \in 1..Len(trk) |-> trk[i].domain]),
             uniqueDomains |-> arrayFromSet([i \in 1..Len(reqs) |-> reqs[i].domain])]]

\* String(trackerCount) for the badge
badgeFor(data) ==
    IF data.stats.trackerCount > 0 THEN ToString(data.stats.trackerCount) ELSE ""

updateBadge(bt, tabId, data) == MapSet(bt, tabId, badgeFor(data))

tabUrlOr_unknown(tu, tabId) == ""

tabUrlOr(tu, tabId) == IF MapHas(tu, tabId) THEN tu[tabId] ELSE ""

\* requests.find(r => r.id === requestId): index of the first match, 0 if none
findIndex(reqs, requestId) ==
    IF \E i \in 1..Len(reqs) : reqs[i].id = requestId
    THEN CHOOSE i \in 1..Len(reqs) :
            /\ reqs[i].id = requestId
            /\ \A j \in 1..(i - 1) : reqs[j].id # requestId
    ELSE 0

\* a record classified as if the tab had no page
newRequest_noPage(details, pageUrl, generated) ==
    LET classification == classifyRequest(details.url, "")
    IN  [id |-> IF details.requestId # "" THEN details.requestId ELSE generated,
         url |-> details.url,
         method |-> details.method,
         type |-> details.type,
         status |-> 0,
         statusText |-> "",
         domain |-> classification.domain,
         isThirdParty |-> classification.isThirdParty,
         isTracker |-> classification.isTracker,
         timing |-> [startTime |-> details.timeStamp,
                     endTime |-> None,
                     duration |-> None],
         requestHeaders |-> None,
         responseHeaders |-> None,
         size |-> None,
         mimeType |-> None]

newRequest(details, pageUrl, generated) ==
    LET classification == classifyRequest(details.url, pageUrl)
    IN  [id |-> IF details.requestId # "" THEN details.requestId ELSE generated,
         url |-> details.url,
         method |-> details.method,
         type |-> details.type,
         status |-> 0,
         statusText |-> "",
         domain |-> classification.domain,
         isThirdParty |-> classification.isThirdParty,
         isTracker |-> classification.isTracker,
         timing |-> [startTime |-> details.timeStamp,
                     endTime |-> None,
                     duration |-> None],
         requestHeaders |-> None,
         responseHeaders |-> None,
         size |-> None,
         mimeType |-> None]

\* a handler that overwrites the record already holding the id
handleRequest_upsert(td, tu, details, generated) ==
    IF details.tabId < 0 THEN td
    ELSE LET pageUrl == tabUrlOr(tu, details.tabId)
             td1 == IF MapHas(td, details.tabId) THEN td
                    ELSE initTabData(td, details.tabId, pageUrl)
             data == td1[details.tabId]
             request == newRequest(details, pageUrl, generated)
             i == findIndex(data.requests, request.id)
             pushed == IF i = 0
                       THEN [data EXCEPT !.requests = Append(@, request)]
                       ELSE [data EXCEPT !.requests[i] = request]
         IN  MapSet(td1, details.tabId, updateStats(pushed))

\* a handler that puts the new record first
handleRequest_unshift(td, tu, details, generated) ==
    IF details.tabId < 0 THEN td
    ELSE LET pageUrl == tabUrlOr(tu, details.tabId)
             td1 == IF MapHas(td, details.tabId) THEN td
                    ELSE initTabData(td, details.tabId, pageUrl)
             data == td1[details.tabId]
             pushed == [data EXCEPT !.requests =
                           <<newRequest(details, pageUrl, generated)>> \o @]
         IN  MapSet(td1, details.tabId, updateStats(pushed))

handleRequest(td, tu, details, generated) ==
    IF details.tabId < 0 THEN td
    ELSE LET pageUrl == tabUrlOr(tu, details.tabId)
             td1 == IF MapHas(td, details.tabId) THEN td
                    ELSE initTabData(td, details.tabId, pageUrl)
             data == td1[details.tabId]
             pushed == [data EXCEPT !.requests =
                           Append(@, newRequest(details, pageUrl, generated))]
         IN  MapSet(td1, details.tabId, updateStats(pushed))

getStatusText(statusCode) ==
    CASE statusCode = 200 -> "OK"
      [] statusCode = 404 -> "Not Found"
      [] OTHER -> ""

\* a handler that makes up a record for an unknown id
handleCompleted_fabricates(td, details) ==
    IF details.tabId < 0 THEN td
    ELSE IF ~MapHas(td, details.tabId) THEN td
    ELSE LET data == td[details.tabId]
             i == findIndex(data.requests, details.requestId)
             made == [newRequest([requestId |-> details.requestId, url |-> "",
                                  method |-> "", type |-> "other",
                                  timeStamp |-> details.timeStamp],
                                 data.pageUrl, "")
                        EXCEPT !.status = details.statusCode]
         IN  IF i = 0
             THEN [td EXCEPT ![details.tabId].requests = Append(@, made)]
             ELSE LET request == data.requests[i]
                  IN  [td EXCEPT ![details.tabId].requests[i] =
                         [request EXCEPT
                            !.status = details.statusCode,
                            !.statusText = getStatusText(details.statusCode),
                            !.timing.endTime = Some(details.timeStamp),
                            !.timing.duration =
                                Some(details.timeStamp - request.timing.startTime)]]

handleCompleted(td, details) ==
    IF details.tabId < 0 THEN td
    ELSE IF ~MapHas(td, details.tabId) THEN td
    ELSE LET data == td[details.tabId]
             i == findIndex(data.requests, details.requestId)
         IN  IF i = 0 THEN td
             ELSE LET request == data.requests[i]
                  IN  [td EXCEPT ![details.tabId].requests[i] =
                         [request EXCEPT
                            !.status = details.statusCode,
                            !.statusText = getStatusText(details.statusCode),
                            !.timing.endTime = Some(details.timeStamp),
                            !.timing.duration =
                                Some(details.timeStamp - request.timing.startTime)]]

\* headers.map(h => ({ name: h.name, value: h.value || '' }))
mapHeaders(headers) ==
    [k \in 1..Len(headers) |->
        [name |-> headers[k].name,
         value |-> IF headers[k].value = None THEN "" ELSE headers[k].value[1]]]

\* a handler that opens a session for a tab it has not seen
handleRequestHeaders_opensSession(td, details) ==
    IF details.tabId < 0 \/ details.requestHeaders = None THEN td
    ELSE IF ~MapHas(td, details.tabId) THEN initTabData(td, details.tabId, "")
    ELSE LET data == td[details.tabId]
             i == findIndex(data.requests, details.requestId)
         IN  IF i = 0 THEN td
             ELSE [td EXCEPT ![details.tabId].requests[i].requestHeaders =
                     Some(mapHeaders(details.requestHeaders[1]))]

\* a handler that also resets the status of the record
handleRequestHeaders_resetsStatus(td, details) ==
    IF details.tabId < 0 \/ details.requestHeaders = None THEN td
    ELSE IF ~MapHas(td, details.tabId) THEN td
    ELSE LET data == td[details.tabId]
             i == findIndex(data.requests, details.requestId)
         IN  IF i = 0 THEN td
             ELSE [td EXCEPT ![details.tabId].requests[i].requestHeaders =
                                Some(mapHeaders(details.requestHeaders[1])),
                             ![details.tabId].requests[i].status = 0]

handleRequestHeaders(td, details) ==
    IF details.tabId < 0 \/ details.requestHeaders = None THEN td
    ELSE IF ~MapHas(td, details.tabId) THEN td
    ELSE LET data == td[details.tabId]
             i == findIndex(data.requests, details.requestId)
         IN  IF i = 0 THEN td
             ELSE [td EXCEPT ![details.tabId].requests[i].requestHeaders =
                     Some(mapHeaders(details.requestHeaders[1]))]

\* the loop over responseHeaders that extracts content-type and
\* content-length, from header k on
RECURSIVE extractHeaders(_, _, _)
extractHeaders(request, headers, k) ==
    IF k > Len(headers) THEN request
    ELSE LET h == headers[k]
             r1 == IF lowerName(h.name) = "content-type"
                   THEN [request EXCEPT !.mimeType = h.value]
                   ELSE request
             r2 == IF lowerName(h.name) = "content-length"
                   THEN [r1 EXCEPT !.size =
                           Some(parseInt(IF h.value = None \/ h.value = Some("")
                                         THEN "0" ELSE h.value[1]))]
                   ELSE r1
         IN  extractHeaders(r2, headers, k + 1)

handleResponseHeaders(td, details) ==
    IF details.tabId < 0 \/ details.responseHeaders = None THEN td
    ELSE IF ~MapHas(td, details.tabId) THEN td
    ELSE LET data == td[details.tabId]
             i == findIndex(data.requests, details.requestId)
             hs == details.responseHeaders[1]
         IN  IF i = 0 THEN td
             ELSE [td EXCEPT ![details.tabId].requests[i] =
                     extractHeaders([@ EXCEPT !.responseHeaders = Some(mapHeaders(hs))],
                                    hs, 1)]

----------------------------------------------------------------------------
(* devtools/Panel.tsx: the panel feed.  The cookie and request-body       *)
(* display state and the response search are not modelled.                 *)

\* URLs the inspected tab navigates to
PageUrls == {"https://www.shop.co.uk/", "https://news.example.com/"}

\* The HAR entries chrome.devtools.network delivers: request.url,
\* request.method, _resourceType, response.status, response.statusText,
\* startedDateTime (as getTime() returns it), time, response.content.size,
\* response.content.mimeType, and the body getContent yields.
HarInputs ==
    {[url |-> "https://cdn.shop.co.uk/app.js", method |-> "GET",
      resourceType |-> Some("script"), status |-> 200, statusText |-> "OK",
      startedDateTime |-> 10, time |-> 5, size |-> 512,
      mimeType |-> "application/javascript", content |-> Some("let a")],
     [url |-> "https://stats.doubleclick.net/pixel", method |-> "POST",
      resourceType |-> None, status |-> 200, statusText |-> "OK",
      startedDateTime |-> 20, time |-> 7, size |-> 8,
      mimeType |-> "application/json", content |-> Some("{\"a\":1}")],
     [url |-> "https://www.shop.co.uk/", method |-> "POST",
      resourceType |-> Some("xmlhttprequest"), status |-> 204,
      statusText |-> "", startedDateTime |-> 30, time |-> 7, size |-> 0,
      mimeType |-> "text/plain", content |-> None],
     [url |-> "not a url", method |-> "GET",
      resourceType |-> None, status |-> 0, statusText |-> "",
      startedDateTime |-> 40, time |-> 1, size |-> 0,
      mimeType |-> "text/plain", content |-> None]}

\* whether `new URL(url)` returns; it throws a TypeError otherwise
parses(url) == url \in DOMAIN URLTable

\* `${Date.now()}-${Math.random()...}`: the n-th id generated
panelId(n) == "id-" \o ToString(n)

\* `existing-${index}`
existingId(index) == "existing-" \o ToString(index)

\* mimeType?.includes('json')
includesJson(mimeType) == mimeType \in {"application/json", "text/json"}

\* Character-level relations between labels: <<x, y>> says that label x
\* properly ends with (starts with) label y.
LabelSuffixes == {<<"notdoubleclick", "doubleclick">>, <<"myshop", "shop">>}

LabelPrefixes == {<<"network", "net">>, <<"community", "com">>}

labelEndsWith(x, y) == y = "" \/ x = y \/ <<x, y>> \in LabelSuffixes

labelStartsWith(x, y) == y = "" \/ x = y \/ <<x, y>> \in LabelPrefixes

\* String.prototype.endsWith on hostnames
endsWith(a, b) ==
    /\ Len(b) <= Len(a)
    /\ \A k \in 2..Len(b) : a[Len(a) - Len(b) + k] = b[k]
    /\ labelEndsWith(a[Len(a) - Len(b) + 1], b[1])

\* String.prototype.includes on hostnames, for a pattern of two labels
\* or more
includes(a, t) ==
    \E off \in 0..(Len(a) - Len(t)) :
        /\ labelEndsWith(a[off + 1], t[1])
        /\ \A k \in 2..(Len(t) - 1) : a[off + k] = t[k]
        /\ labelStartsWith(a[off + Len(t)], t[Len(t)])

\* the panel's own tracker list
panelTrackerDomains ==
    {<<"google-analytics", "com">>, <<"doubleclick", "net">>,
     <<"facebook", "net">>, <<"googletagmanager", "com">>}

\* the record handleRequest builds from a HAR entry
panelRequest(id, har) ==
    [id |-> id,
     url |-> har.url,
     method |-> har.method,
     type |-> IF har.resourceType = None THEN "other" ELSE har.resourceType[1],
     status |-> har.status,
     statusText |-> har.statusText,
     domain |-> URLTable[har.url],
     isThirdParty |-> FALSE,
     isTracker |-> FALSE,
     timing |-> [startTime |-> har.startedDateTime, duration |-> har.time],
     size |-> har.size,
     mimeType |-> har.mimeType]

\* the classification the chrome.tabs.get callback writes into the record
panelClassify(request, tabUrl) ==
    IF tabUrl = "" THEN request
    ELSE LET pageDomain == URLTable[tabUrl]
             requestDomain == request.domain
         IN  [request EXCEPT
                !.isThirdParty = /\ ~endsWith(requestDomain, pageDomain)
                                 /\ ~endsWith(pageDomain, requestDomain),
                !.isTracker = \E t \in panelTrackerDomains : includes(requestDomain, t)]

----------------------------------------------------------------------------
(* background/service-worker.ts: the listeners *)

\* A sendResponse payload; a field the payload lacks is None, and a field
\* that is present holds Some(value).  data: null is Some(None).
Payload(success, data, error, tabId) ==
    [success |-> success, data |-> data, error |-> error, tabId |-> tabId]

NoResponse == None

\* The event loop runs one listener to completion at a time: a listener
\* starts from the idle loop and leaves in lastEvent which event it handled
\* and what the tab's session held when it started.
Idle == lastEvent = None /\ response = NoResponse

Before(tabId, requestId) ==
    IF MapHas(tabData, tabId)
    THEN LET reqs == tabData[tabId].requests
         IN  [session |-> TRUE,
              records |-> Len(reqs),
              pending |-> Cardinality({i \in 1..Len(reqs) : reqs[i].status = 0}),
              found |-> \E i \in 1..Len(reqs) : reqs[i].id = requestId]
    ELSE [session |-> FALSE, records |-> 0, pending |-> 0, found |-> FALSE]

Event(kind, tabId, requestId, url) ==
    Some([kind |-> kind, tabId |-> tabId, url |-> url,
          before |-> IF tabId = None THEN Before(0, requestId)
                     ELSE Before(tabId[1], requestId)])

\* ids generateRequestId() can return
GeneratedIds == {"g1"}

TotalRecords(td) ==
    LET Sum[S \in SUBSET DOMAIN td] ==
            IF S = {} THEN 0
            ELSE LET t == CHOOSE x \in S : TRUE
                 IN  Len(td[t].requests) + Sum[S \ {t}]
    IN  Sum[DOMAIN td]

Init ==
    /\ tabData = EmptyMap
    /\ tabUrls = EmptyMap
    /\ badgeText = EmptyMap
    /\ response = None
    /\ lastEvent = None
    /\ requests = <<>>
    /\ harRequestMap = EmptyMap
    /\ responseCache = EmptyMap
    /\ selectedRequest = None
    /\ responseBody = None
    /\ loadingBody = FALSE
    /\ inspectedUrl = "https://www.shop.co.uk/"
    /\ navigations = 0
    /\ harLog = <<>>
    /\ finished = 0
    /\ origin = EmptyMap
    /\ tabsGetPending = {}
    /\ contentPending = EmptyBag
    /\ getHARPending = TRUE
    /\ raised = FALSE
    /\ call = None

\* chrome.webRequest.onBeforeRequest
OnBeforeRequest(tabId, requestId, inp) ==
    LET details == [tabId |-> tabId, requestId |-> requestId, url |-> inp.url,
                    method |-> inp.method, type |-> inp.type,
                    timeStamp |-> inp.timeStamp]
    IN  /\ Idle
        /\ UNCHANGED panelVars
        /\ UNCHANGED call
        /\ TotalRecords(tabData) < MaxRecords
        /\ \E generated \in GeneratedIds :
              tabData' = handleRequest(tabData, tabUrls, details, generated)
        /\ badgeText' = IF tabId < 0 THEN badgeText
                        ELSE updateBadge(badgeText, tabId, tabData'[tabId])
        /\ lastEvent' = Event("begin", Some(tabId), requestId, inp.url)
        /\ UNCHANGED <<tabUrls, response>>

\* chrome.webRequest.onCompleted
OnCompleted(tabId, requestId, inp) ==
    /\ Idle
    /\ UNCHANGED panelVars
    /\ UNCHANGED call
    /\ tabData' = handleCompleted(tabData,
                      [tabId |-> tabId, requestId |-> requestId,
                       statusCode |-> inp.statusCode, timeStamp |-> inp.timeStamp])
    /\ lastEvent' = Event("completed", Some(tabId), requestId, "")
    /\ UNCHANGED <<tabUrls, badgeText, response>>

\* chrome.webRequest.onSendHeaders
OnSendHeaders(tabId, requestId, headers) ==
    /\ Idle
    /\ UNCHANGED panelVars
    /\ UNCHANGED call
    /\ tabData' = handleRequestHeaders(tabData,
                      [tabId |-> tabId, requestId |-> requestId,
                       requestHeaders |-> headers])
    /\ lastEvent' = Event("requestHeaders", Some(tabId), requestId, "")
    /\ UNCHANGED <<tabUrls, badgeText, response>>

\* chrome.webRequest.onHeadersReceived
OnHeadersReceived(tabId, requestId, headers) ==
    /\ Idle
    /\ UNCHANGED panelVars
    /\ UNCHANGED call
    /\ tabData' = handleResponseHeaders(tabData,
                      [tabId |-> tabId, requestId |-> requestId,
                       responseHeaders |-> headers])
    /\ lastEvent' = Event("responseHeaders", Some(tabId), requestId, "")
    /\ UNCHANGED <<tabUrls, badgeText, response>>

\* chrome.tabs.onUpdated
OnTabUpdated(tabId, status, url) ==
    /\ Idle
    /\ UNCHANGED panelVars
    /\ UNCHANGED call
    /\ IF status = "loading" /\ url # ""
       THEN /\ tabUrls' = MapSet(tabUrls, tabId, url)
            /\ tabData' = initTabData(tabData, tabId, url)
            /\ badgeText' = updateBadge(badgeText, tabId, tabData'[tabId])
       ELSE UNCHANGED <<tabData, tabUrls, badgeText>>
    /\ lastEvent' = Event(IF status = "loading" /\ url # ""
                          THEN "tab-navigated" ELSE "tab-updated",
                          Some(tabId), "", url)
    /\ UNCHANGED response

\* chrome.tabs.onRemoved; the browser drops the closed tab's badge with it
OnTabRemoved(tabId) ==
    /\ Idle
    /\ UNCHANGED panelVars
    /\ UNCHANGED call
    /\ tabData' = MapDelete(tabData, tabId)
    /\ tabUrls' = MapDelete(tabUrls, tabId)
    /\ badgeText' = [t \in (DOMAIN badgeText) \ {tabId} |-> badgeText[t]]
    /\ lastEvent' = Event("tab-closed", Some(tabId), "", "")
    /\ UNCHANGED response

\* chrome.runtime.onMessage, case 'GET_TAB_DATA'
\* a handler that answers a message without tabId as if the tab were unknown
getTabDataResponse_unchecked(td, message) ==
    IF message.tabId # None /\ MapHas(td, message.tabId[1])
    THEN Payload(Some(TRUE), Some(Some(td[message.tabId[1]])), None, None)
    ELSE Payload(Some(TRUE), Some(None), None, None)

getTabDataResponse(td, message) ==
    IF message.tabId # None
    THEN Payload(Some(TRUE),
                 Some(IF MapHas(td, message.tabId[1])
                      THEN Some(td[message.tabId[1]]) ELSE None),
                 None, None)
    ELSE Payload(Some(FALSE), None, Some("No tabId provided"), None)

OnGetTabData(message) ==
    /\ Idle
    /\ UNCHANGED panelVars
    /\ UNCHANGED call
    /\ message.type = "GET_TAB_DATA"
    /\ response' = Some(getTabDataResponse(tabData, message))
    /\ lastEvent' = Event("GET_TAB_DATA", message.tabId, "", "")
    /\ UNCHANGED <<tabData, tabUrls, badgeText>>

\* chrome.runtime.onMessage, case 'CLEAR_TAB'
OnClearTab(message) ==
    /\ Idle
    /\ UNCHANGED panelVars
    /\ UNCHANGED call
    /\ message.type = "CLEAR_TAB"
    /\ IF message.tabId # None
       THEN LET tabId == message.tabId[1]
            IN  /\ tabData' = initTabData(tabData, tabId, tabUrlOr(tabUrls, tabId))
                /\ badgeText' = updateBadge(badgeText, tabId, tabData'[tabId])
                /\ response' = Some(Payload(Some(TRUE), None, None, None))
       ELSE /\ response' = Some(Payload(Some(FALSE), None,
                                        Some("No tabId provided"), None))
            /\ UNCHANGED <<tabData, badgeText>>
    /\ lastEvent' = Event("CLEAR_TAB", message.tabId, "", "")
    /\ UNCHANGED tabUrls

\* chrome.runtime.onMessage, case 'GET_CURRENT_TAB': activeTab is tabs[0]?.id
OnGetCurrentTab(message, activeTab) ==
    /\ Idle
    /\ UNCHANGED panelVars
    /\ UNCHANGED call
    /\ message.type = "GET_CURRENT_TAB"
    /\ response' = Some(Payload(None, None, None,
                                Some(IF activeTab # None /\ activeTab # Some(0)
                                     THEN activeTab[1] ELSE -1)))
    /\ lastEvent' = Event("GET_CURRENT_TAB", message.tabId, "", "")
    /\ UNCHANGED <<tabData, tabUrls, badgeText>>

\* chrome.runtime.onMessage, default
OnUnknownMessage(message) ==
    /\ Idle
    /\ UNCHANGED panelVars
    /\ UNCHANGED call
    /\ message.type \notin {"GET_TAB_DATA", "CLEAR_TAB", "GET_CURRENT_TAB"}
    /\ response' = Some(Payload(Some(FALSE), None,
                                Some("Unknown message type"), None))
    /\ lastEvent' = Event(message.type, message.tabId, "", "")
    /\ UNCHANGED <<tabData, tabUrls, badgeText>>

\* The listener has returned; a message's payload goes to the sender's
\* callback and the loop is idle again.
ReturnToLoop ==
    /\ lastEvent # None
    /\ lastEvent' = None
    /\ response' = NoResponse
    /\ UNCHANGED <<tabData, tabUrls, badgeText>>
    /\ UNCHANGED panelVars
    /\ UNCHANGED call

ActiveTabs == {None, Some(1)}

MessageTypes == {"GET_TAB_DATA", "CLEAR_TAB", "GET_CURRENT_TAB", "TAB_DATA_UPDATED"}

MessageTabIds == {None} \cup {Some(t) : t \in Tabs}

Messages == [type : MessageTypes, tabId : MessageTabIds]

Next ==
    \/ \E t \in TabIds, r \in RequestIds, inp \in BeginInputs :
          OnBeforeRequest(t, r, inp)
    \/ \E t \in TabIds, r \in RequestIds, inp \in CompletedInputs :
          OnCompleted(t, r, inp)
    \/ \E t \in TabIds, r \in RequestIds, h \in RequestHeaderInputs :
          OnSendHeaders(t, r, h)
    \/ \E t \in TabIds, r \in RequestIds, h \in ResponseHeaderInputs :
          OnHeadersReceived(t, r, h)
    \/ \E t \in Tabs, st \in NavStatuses, u \in NavUrls :
          OnTabUpdated(t, st, u)
    \/ \E t \in Tabs : OnTabRemoved(t)
    \/ \E m \in Messages : OnGetTabData(m)
    \/ \E m \in Messages : OnClearTab(m)
    \/ \E m \in Messages, a \in ActiveTabs :
          m.tabId = None /\ OnGetCurrentTab(m, a)
    \/ \E m \in Messages : m.tabId = None /\ OnUnknownMessage(m)
    \/ ReturnToLoop

Spec == Init /\ [][Next]_vars

----------------------------------------------------------------------------
(* devtools/Panel.tsx: the listeners, the callbacks and the user's clicks *)

\* a pending getContent callback
contentCallback(kind, id, harRequest) ==
    [kind |-> kind, id |-> id, content |-> harRequest.content]

\* chrome.devtools.network.onRequestFinished: handleRequest up to the
\* call of chrome.tabs.get.  `new URL` is evaluated while the record is
\* built, outside any try: when it throws, handleRequest ends there.
RequestFinished(harRequest) ==
    /\ finished < MaxFinished
    /\ IF parses(harRequest.url)
       THEN LET request == panelRequest(panelId(finished + 1), harRequest)
            IN  /\ tabsGetPending' = tabsGetPending \cup
                       {[request |-> request, harRequest |-> harRequest]}
                /\ origin' = MapSet(origin, request.id, navigations)
                /\ raised' = FALSE
       ELSE /\ raised' = TRUE
            /\ UNCHANGED <<tabsGetPending, origin>>
    /\ finished' = finished + 1
    /\ harLog' = Append(harLog, harRequest)
    /\ UNCHANGED <<requests, harRequestMap, responseCache, selectedRequest,
                   responseBody, loadingBody, inspectedUrl, navigations,
                   contentPending, getHARPending>>
    /\ UNCHANGED aggVars
    /\ UNCHANGED call

\* the chrome.tabs.get callback of handleRequest
TabsGetCallback(cb) ==
    /\ cb \in tabsGetPending
    /\ LET request == panelClassify(cb.request, inspectedUrl)
       IN  /\ harRequestMap' = MapSet(harRequestMap, request.id, cb.harRequest)
           /\ requests' = Append(requests, request)
           /\ contentPending' =
                 IF request.type = "xmlhttprequest" \/ includesJson(request.mimeType)
                 THEN contentPending (+)
                      SetToBag({contentCallback("prefetch", request.id, cb.harRequest)})
                 ELSE contentPending
    /\ tabsGetPending' = tabsGetPending \ {cb}
    /\ UNCHANGED <<responseCache, selectedRequest, responseBody, loadingBody,
                   inspectedUrl, navigations, harLog, finished, origin,
                   getHARPending>>
    /\ raised' = FALSE
    /\ UNCHANGED aggVars
    /\ UNCHANGED call

\* the getContent callback of the pre-fetch in handleRequest
PrefetchContentCallback(cb) ==
    /\ BagIn(cb, contentPending)
    /\ cb.kind = "prefetch"
    /\ responseCache' = IF cb.content # None
                        THEN MapSet(responseCache, cb.id, cb.content[1])
                        ELSE responseCache
    /\ contentPending' = contentPending (-) SetToBag({cb})
    /\ UNCHANGED <<requests, harRequestMap, selectedRequest, responseBody,
                   loadingBody, inspectedUrl, navigations, harLog, finished,
                   origin, tabsGetPending, getHARPending>>
    /\ raised' = FALSE
    /\ UNCHANGED aggVars
    /\ UNCHANGED call

\* chrome.devtools.network.onNavigated: the inspected tab has a new URL and
\* a fresh HAR log, and handleNavigated runs
Navigated(url) ==
    /\ navigations < MaxNavigations
    /\ navigations' = navigations + 1
    /\ inspectedUrl' = url
    /\ harLog' = <<>>
    /\ requests' = <<>>
    /\ selectedRequest' = None
    /\ responseBody' = None
    /\ responseCache' = EmptyMap
    /\ harRequestMap' = EmptyMap
    /\ UNCHANGED <<loadingBody, finished, origin, tabsGetPending,
                   contentPending, getHARPending>>
    /\ raised' = FALSE
    /\ UNCHANGED aggVars
    /\ UNCHANGED call

\* the record the getHAR callback builds from entry `index` (0-based)
existingRequest(entry, index) == panelRequest(existingId(index), entry)

\* the callback of chrome.devtools.network.getHAR; when `new URL` throws
\* for an entry, the map is abandoned and setRequests is not reached
GetHARCallback ==
    /\ getHARPending
    /\ getHARPending' = FALSE
    /\ IF \A i \in 1..Len(harLog) : parses(harLog[i].url)
       THEN /\ requests' =
                  [i \in 1..Len(harLog) |-> existingRequest(harLog[i], i - 1)]
            /\ origin' =
                  [id \in DOMAIN origin
                          \cup {existingId(i - 1) : i \in 1..Len(harLog)} |->
                      IF id \in {existingId(i - 1) : i \in 1..Len(harLog)}
                      THEN navigations ELSE origin[id]]
            /\ raised' = FALSE
       ELSE /\ raised' = TRUE
            /\ UNCHANGED <<requests, origin>>
    /\ UNCHANGED <<harRequestMap, responseCache, selectedRequest, responseBody,
                   loadingBody, inspectedUrl, navigations, harLog, finished,
                   tabsGetPending, contentPending>>
    /\ UNCHANGED aggVars
    /\ UNCHANGED call

\* a click on row i: handleSelectRequest, then fetchRequestDetails up to
\* the call of getContent
SelectRequest(i) ==
    /\ i \in 1..Len(requests)
    /\ BagCardinality(contentPending) < MaxPending
    /\ LET request == requests[i]
       IN  /\ selectedRequest' = Some(request)
           /\ responseBody' = None
           /\ IF ~MapHas(harRequestMap, request.id)
              THEN UNCHANGED <<loadingBody, contentPending>>
              ELSE /\ loadingBody' = TRUE
                   /\ contentPending' = contentPending (+)
                         SetToBag({contentCallback("details", request.id,
                                                   harRequestMap[request.id])})
    /\ UNCHANGED <<requests, harRequestMap, responseCache, inspectedUrl,
                   navigations, harLog, finished, origin, tabsGetPending,
                   getHARPending>>
    /\ raised' = FALSE
    /\ UNCHANGED aggVars
    /\ UNCHANGED call

\* the getContent callback of fetchRequestDetails
DetailsContentCallback(cb) ==
    /\ BagIn(cb, contentPending)
    /\ cb.kind = "details"
    /\ responseBody' = cb.content
    /\ loadingBody' = FALSE
    /\ contentPending' = contentPending (-) SetToBag({cb})
    /\ UNCHANGED <<requests, harRequestMap, responseCache, selectedRequest,
                   inspectedUrl, navigations, harLog, finished, origin,
                   tabsGetPending, getHARPending>>
    /\ raised' = FALSE
    /\ UNCHANGED aggVars
    /\ UNCHANGED call

\* the Clear button
clearRequests ==
    /\ requests # <<>>
    /\ requests' = <<>>
    /\ selectedRequest' = None
    /\ responseBody' = None
    /\ responseCache' = EmptyMap
    /\ harRequestMap' = EmptyMap
    /\ UNCHANGED <<loadingBody, inspectedUrl, navigations, harLog, finished,
                   origin, tabsGetPending, contentPending, getHARPending>>
    /\ raised' = FALSE
    /\ UNCHANGED aggVars
    /\ UNCHANGED call

NextPanel ==
    \/ \E harRequest \in HarInputs : RequestFinished(harRequest)
    \/ \E cb \in tabsGetPending : TabsGetCallback(cb)
    \/ \E cb \in BagToSet(contentPending) : PrefetchContentCallback(cb)
    \/ \E url \in PageUrls : Navigated(url)
    \/ GetHARCallback
    \/ \E i \in 1..Len(requests) : SelectRequest(i)
    \/ \E cb \in BagToSet(contentPending) : DetailsContentCallback(cb)
    \/ clearRequests

SpecPanel == Init /\ [][NextPanel]_vars

----------------------------------------------------------------------------
(* shared/utils.ts and shared/pii-detector.ts: calls of the domain         *)
(* utilities.  A call leaves in `call` the function, its arguments and     *)
(* what it returned; the caller then takes the result.                     *)

DomainLabels == {"www", "a", "shop", "co", "uk", "com"}

\* hostnames passed to getBaseDomain
Hostnames == HostsUpTo(DomainLabels, MaxLabels)

TrackerLabels ==
    {"www", "pagead2", "googlesyndication", "com", "notdoubleclick",
     "doubleclick", "net"}

\* hostnames passed to isTrackerDomain
TrackerHostnames ==
    HostsUpTo(TrackerLabels, MaxLabels)
    \cup {EmptyHost,
          <<"WWW", "DoubleClick", "net">>,
          <<"google", "com">>,
          <<"analytics", "google", "com">>,
          <<"www", "analytics", "google", "com">>,
          <<"eu", "analytics", "google", "com">>}

\* URL strings passed to isThirdParty
Urls == {urlOf(host) : host \in UrlHosts} \cup {"", "not a url"}

Called(fn, args, result) == Some([fn |-> fn, args |-> args, result |-> result])

CallGetBaseDomain(hostname) ==
    /\ call = None
    /\ call' = Called("getBaseDomain", <<hostname>>, getBaseDomain(hostname))
    /\ UNCHANGED <<aggVars, panelVars>>

CallIsThirdParty(requestUrl, pageUrl) ==
    /\ call = None
    /\ call' = Called("isThirdParty", <<requestUrl, pageUrl>>,
                      isThirdParty(requestUrl, pageUrl))
    /\ UNCHANGED <<aggVars, panelVars>>

CallIsTrackerDomain(domain) ==
    /\ call = None
    /\ call' = Called("isTrackerDomain", <<domain>>, isTrackerDomain(domain))
    /\ UNCHANGED <<aggVars, panelVars>>

\* the caller takes the result
Return ==
    /\ call # None
    /\ call' = None
    /\ UNCHANGED <<aggVars, panelVars>>

\* A function is called only when no call is in progress; the test stands
\* before the choice of the arguments.
NextUtils ==
    \/ /\ call = None
       /\ \E hostname \in Hostnames : CallGetBaseDomain(hostname)
    \/ /\ call = None
       /\ \E requestUrl \in Urls, pageUrl \in Urls :
             CallIsThirdParty(requestUrl, pageUrl)
    \/ /\ call = None
       /\ \E domain \in TrackerHostnames : CallIsTrackerDomain(domain)
    \/ Return

SpecUtils == Init /\ [][NextUtils]_vars

----------------------------------------------------------------------------
(* The privacy score of the popup: calculatePrivacyScore.  Counts are      *)
(* naturals; a ratio a / b is compared with a decimal by cross             *)
(* multiplication, which agrees with the floating-point comparison for the *)
(* counts used here, and Math.round(a / b * 100) is exact for b < 40.      *)

Min(a, b) == IF a <= b THEN a ELSE b

Max(a, b) == IF a >= b THEN a ELSE b

\* parts.join(sep)
RECURSIVE joinWith(_, _)
joinWith(parts, sep) ==
    IF parts = <<>> THEN ""
    ELSE IF Len(parts) = 1 THEN parts[1]
    ELSE parts[1] \o sep \o joinWith(Tail(parts), sep)

\* arr.slice(0, n)
sliceFirst(arr, n) == SubSeq(arr, 1, Min(n, Len(arr)))

\* Math.round(a / b * 100), b > 0
roundPercent(a, b) == (200 * a + b) \div (2 * b)

\* a penalty without the surcharge for a high tracker ratio
trackerPenalty_flat(stats) ==
    IF stats.trackerCount > 0 THEN Min(stats.trackerCount * 8, 40) ELSE 0

trackerPenalty(stats) ==
    IF stats.trackerCount > 0
    THEN LET trackerRatioAboveTenth ==
                 /\ stats.totalRequests > 0
                 /\ 10 * stats.trackerCount > stats.totalRequests
         IN  Min(stats.trackerCount * 8, 40)
             + (IF trackerRatioAboveTenth THEN 10 ELSE 0)
    ELSE 0

trackerDetails(stats) ==
    IF stats.trackerCount > 0
    THEN <<ToString(stats.trackerCount) \o " tracker"
           \o (IF stats.trackerCount > 1 THEN "s" ELSE "")
           \o " detected ("
           \o joinWith(sliceFirst(stats.trackerDomains, 3), ", ")
           \o (IF Len(stats.trackerDomains) > 3 THEN "..." ELSE "")
           \o ")">>
    ELSE <<>>

\* which branch of the third-party tiers is taken: 3 (> 0.7), 2 (> 0.5),
\* 1 (> 0.3) or 0
thirdPartyTier(stats) ==
    IF stats.totalRequests > 0
    THEN IF 10 * stats.thirdPartyCount > 7 * stats.totalRequests THEN 3
         ELSE IF 10 * stats.thirdPartyCount > 5 * stats.totalRequests THEN 2
         ELSE IF 10 * stats.thirdPartyCount > 3 * stats.totalRequests THEN 1
         ELSE 0
    ELSE 0

thirdPartyPenalty(stats) == 10 * thirdPartyTier(stats)

thirdPartyDetails(stats) ==
    LET tier == thirdPartyTier(stats)
        percent == ToString(roundPercent(stats.thirdPartyCount, stats.totalRequests))
    IN  IF tier = 3
        THEN <<"High third-party ratio: " \o percent
               \o "% of requests go to external servers">>
        ELSE IF tier = 2
        THEN <<"Moderate third-party usage: " \o percent
               \o "% of requests are external">>
        ELSE IF tier = 1
        THEN <<"Some third-party requests: " \o percent \o "% external">>
        ELSE <<>>

\* a penalty of 8 from the sixth server on
domainPenalty_eightFromSix(stats) ==
    LET domainCount == Len(stats.uniqueDomains)
    IN  IF domainCount > 30 THEN 20
        ELSE IF domainCount > 20 THEN 15
        ELSE IF domainCount > 5 THEN 8
        ELSE 0

domainPenalty(stats) ==
    LET domainCount == Len(stats.uniqueDomains)
    IN  IF domainCount > 30 THEN 20
        ELSE IF domainCount > 20 THEN 15
        ELSE IF domainCount > 10 THEN 8
        ELSE IF domainCount > 5 THEN 3
        ELSE 0

domainDetails(stats) ==
    LET domainCount == Len(stats.uniqueDomains)
        contacts == "Contacts " \o ToString(domainCount) \o " different servers"
    IN  IF domainCount > 30 THEN <<contacts \o " - very high">>
        ELSE IF domainCount > 20 THEN <<contacts \o " - high">>
        ELSE IF domainCount > 10 THEN <<contacts>>
        ELSE <<>>

\* grades one step more lenient
scoreToGrade_lenient(score) ==
    IF score >= 80 THEN "A"
    ELSE IF score >= 75 THEN "B"
    ELSE IF score >= 60 THEN "C"
    ELSE IF score >= 40 THEN "D"
    ELSE "F"

scoreToGrade(score) ==
    IF score >= 90 THEN "A"
    ELSE IF score >= 75 THEN "B"
    ELSE IF score >= 60 THEN "C"
    ELSE IF score >= 40 THEN "D"
    ELSE "F"

generateSummary(grade) ==
    CASE grade = "A" -> "Excellent privacy! Minimal tracking and external requests."
      [] grade = "B" -> "Good privacy. Some third-party services but limited tracking."
      [] grade = "C" -> "Moderate privacy concerns. Consider using a content blocker."
      [] grade = "D" -> "Poor privacy. Significant tracking and data sharing detected."
      [] grade = "F" -> "Very poor privacy. Heavy tracking and surveillance detected."
      [] OTHER -> "Unable to determine privacy score."

PositiveNote == "This site has good privacy practices"

\* the issue lines in the order of a list that reports the servers first
issueDetails_domainFirst(stats) ==
    domainDetails(stats) \o trackerDetails(stats) \o thirdPartyDetails(stats)

\* the issue lines in the order the function pushes them
issueDetails(stats) ==
    trackerDetails(stats) \o thirdPartyDetails(stats) \o domainDetails(stats)

calculatePrivacyScore(stats) ==
    LET score == Max(0, Min(100, 100 - trackerPenalty(stats)
                                     - thirdPartyPenalty(stats)
                                     - domainPenalty(stats)))
        grade == scoreToGrade(score)
        issues == issueDetails(stats)
    IN  [grade |-> grade,
         score |-> score,
         breakdown |-> [trackerPenalty |-> trackerPenalty(stats),
                        thirdPartyPenalty |-> thirdPartyPenalty(stats),
                        domainPenalty |-> domainPenalty(stats)],
         summary |-> generateSummary(grade),
         details |-> IF score >= 80 /\ Len(issues) = 0
                     THEN Append(issues, PositiveNote)
                     ELSE issues]

\* the numbers of unique domains passed to the score: around each tier
DomainCounts == {0, 5, 6, 10, 11, 12, 20, 21, 30, 31}

TrackerDomainCounts == {0, 1, 3, 4}

TrackerDomainNames ==
    <<"doubleclick.net", "google-analytics.com", "facebook.net", "hotjar.com">>

\* the stats of a session
ScoreInput(total, thirdParty, trackers, named, domains) ==
    [totalRequests |-> total,
     firstPartyCount |-> total - thirdParty,
     thirdPartyCount |-> thirdParty,
     trackerCount |-> trackers,
     trackerDomains |-> SubSeq(TrackerDomainNames, 1, named),
     uniqueDomains |-> [i \in 1..domains |-> "d" \o ToString(i) \o ".example"]]

CallCalculatePrivacyScore(stats) ==
    /\ call = None
    /\ call' = Called("calculatePrivacyScore", <<stats>>, calculatePrivacyScore(stats))
    /\ UNCHANGED <<aggVars, panelVars>>

NextScore ==
    \/ /\ call = None
       /\ \E total \in 0..MaxTotalRequests :
             \E thirdParty \in 0..total, trackers \in 0..MaxTrackerCount,
                named \in TrackerDomainCounts, domains \in DomainCounts :
                CallCalculatePrivacyScore(
                    ScoreInput(total, thirdParty, trackers, named, domains))
    \/ Return

SpecScore == Init /\ [][NextScore]_vars

----------------------------------------------------------------------------
(* shared/pii-detector.ts.  A string that is looked into is the sequence   *)
(* of its characters, each a string of length one.                         *)

DigitChars == <<"0", "1", "2", "3", "4", "5", "6", "7", "8", "9">>

isDigit(c) == \E d \in 1..10 : DigitChars[d] = c

\* parseInt(c, 10) of a digit character
digitOf(c) == (CHOOSE d \in 1..10 : DigitChars[d] = c) - 1

\* the string that writes the digits ds
digitString(ds) == [i \in 1..Len(ds) |-> DigitChars[ds[i] + 1]]

\* value.replace(/\D/g, '')
digitsOnly(value) ==
    LET keep(c) == isDigit(c) IN SelectSeq(value, keep)

\* a checksum that adds the digits without doubling any
isValidCreditCard_plainSum(value) ==
    LET digits == digitsOnly(value)
        n == Len(digits)
        sum[k \in 0..n] == IF k = 0 THEN 0 ELSE sum[k - 1] + digitOf(digits[k])
    IN  IF n < 13 \/ n > 19 THEN FALSE ELSE sum[n] % 10 = 0

\* sum[k] is the value of `sum` after the loop has handled the k rightmost
\* digits; isEven is true at the 2nd, 4th, ... of them
isValidCreditCard(value) ==
    LET digits == digitsOnly(value)
        n == Len(digits)
        sum[k \in 0..n] ==
            IF k = 0 THEN 0
            ELSE LET digit == digitOf(digits[n - k + 1])
                     isEven == k % 2 = 0
                     doubled == IF 2 * digit > 9 THEN 2 * digit - 9 ELSE 2 * digit
                 IN  sum[k - 1] + (IF isEven THEN doubled ELSE digit)
    IN  IF n < 13 \/ n > 19 THEN FALSE ELSE sum[n] % 10 = 0

Visa16 == digitString(<<4, 1, 1, 1, 1, 1, 1, 1, 1, 1, 1, 1, 1, 1, 1, 1>>)

\* card numbers of 12, 13, 15, 16, 19 and 20 digits, and one written in
\* groups
CardNumbers ==
    {Visa16,
     digitString(<<4, 2, 2, 2, 2, 2, 2, 2, 2, 2, 2, 2, 2>>),
     digitString(<<3, 7, 8, 2, 8, 2, 2, 4, 6, 3, 1, 0, 0, 0, 5>>),
     digitString(<<4, 1, 1, 1, 1, 1, 1, 1, 1, 1, 1, 7>>),
     digitString(<<4, 1, 1, 1, 1, 1, 1, 1, 1, 1, 1, 1, 1, 1, 1, 1, 1, 1, 0>>),
     digitString(<<4, 1, 1, 1, 1, 1, 1, 1, 1, 1, 1, 1, 1, 1, 1, 1, 1, 1, 1, 5>>),
     <<"4", "1", "1", "1", "-", "1", "1", "1", "1", "-",
       "1", "1", "1", "1", "-", "1", "1", "1", "1">>}

\* value with the character at pos replaced by c
withChar(value, pos, c) == [value EXCEPT ![pos] = c]

\* the card numbers and every string that differs from one of them in one
\* digit
CardInputs ==
    UNION {{withChar(value, pos, DigitChars[d]) :
               pos \in {i \in 1..Len(value) : isDigit(value[i])}, d \in 1..10} :
           value \in CardNumbers}

CallIsValidCreditCard(value) ==
    /\ call = None
    /\ call' = Called("isValidCreditCard", <<value>>, isValidCreditCard(value))
    /\ UNCHANGED <<aggVars, panelVars>>

\* Object.entries(PII_PATTERNS): the categories in the order they are
\* scanned
PIITypes ==
    <<"email", "phone", "credit_card", "ssn", "ip_address", "name", "address">>

\* The fields a scanned content is made of, written "key":"value" and
\* separated by commas.  `found` lists what the patterns of PII_PATTERNS
\* match in the field, by category in scanning order: for name and address
\* the trimmed captured group, else the whole match.  No match of a pattern
\* extends over two fields.
Fields ==
    {[key |-> "email",
      value |-> "Bob@Example.com",
      found |-> <<[type |-> "email", value |-> <<"B", "o", "b", "@", "E", "x", "a", "m", "p", "l", "e", ".", "c", "o", "m">>]>>],
     [key |-> "contact",
      value |-> "bob@example.com",
      found |-> <<[type |-> "email", value |-> <<"b", "o", "b", "@", "e", "x", "a", "m", "p", "l", "e", ".", "c", "o", "m">>]>>],
     [key |-> "phone",
      value |-> "555-123-4567",
      found |-> <<[type |-> "phone", value |-> <<"5", "5", "5", "-", "1", "2", "3", "-", "4", "5", "6", "7">>]>>],
     [key |-> "mobile",
      value |-> "5551234567",
      found |-> <<[type |-> "phone", value |-> <<"5", "5", "5", "1", "2", "3", "4", "5", "6", "7">>]>>],
     [key |-> "tel",
      value |-> "(555) 123-4567",
      found |-> <<[type |-> "phone", value |-> <<"(", "5", "5", "5", ")", " ", "1", "2", "3", "-", "4", "5", "6", "7">>]>>],
     [key |-> "card",
      value |-> "4111111111111111",
      found |-> <<[type |-> "phone", value |-> <<"4", "1", "1", "1", "1", "1", "1", "1", "1", "1">>],
               [type |-> "credit_card", value |-> <<"4", "1", "1", "1", "1", "1", "1", "1", "1", "1", "1", "1", "1", "1", "1", "1">>]>>],
     [key |-> "address",
      value |-> "4111111111111112",
      found |-> <<[type |-> "phone", value |-> <<"4", "1", "1", "1", "1", "1", "1", "1", "1", "1">>],
               [type |-> "credit_card", value |-> <<"4", "1", "1", "1", "1", "1", "1", "1", "1", "1", "1", "1", "1", "1", "1", "2">>],
               [type |-> "address", value |-> <<"4", "1", "1", "1", "1", "1", "1", "1", "1", "1", "1", "1", "1", "1", "1", "2">>]>>],
     [key |-> "ssn",
      value |-> "123-45-6789",
      found |-> <<[type |-> "ssn", value |-> <<"1", "2", "3", "-", "4", "5", "-", "6", "7", "8", "9">>]>>],
     [key |-> "street",
      value |-> "123-45-6789",
      found |-> <<[type |-> "ssn", value |-> <<"1", "2", "3", "-", "4", "5", "-", "6", "7", "8", "9">>],
               [type |-> "address", value |-> <<"1", "2", "3", "-", "4", "5", "-", "6", "7", "8", "9">>]>>],
     [key |-> "city",
      value |-> "000-12-3456",
      found |-> <<[type |-> "ssn", value |-> <<"0", "0", "0", "-", "1", "2", "-", "3", "4", "5", "6">>],
               [type |-> "address", value |-> <<"0", "0", "0", "-", "1", "2", "-", "3", "4", "5", "6">>]>>],
     [key |-> "username",
      value |-> "bob",
      found |-> <<[type |-> "name", value |-> <<"b", "o", "b">>]>>],
     [key |-> "ip",
      value |-> "10.0.0.1",
      found |-> <<[type |-> "ip_address", value |-> <<"1", "0", ".", "0", ".", "0", ".", "1">>]>>]}

\* the contents scanned: objects of MaxFields fields at most
Contents == UNION {[1..n -> Fields] : n \in 0..MaxFields}

\* the successive results of pattern.exec(content), category after category
candidates(content) ==
    LET ofField(t, k) ==
            LET isType(c) == c.type = t
            IN  SelectSeq(content[k].found, isType)
        ofType[t \in 1..Len(PIITypes), k \in 0..Len(content)] ==
            IF k = 0 THEN <<>>
            ELSE ofType[t, k - 1] \o ofField(PIITypes[t], k)
        all[t \in 0..Len(PIITypes)] ==
            IF t = 0 THEN <<>> ELSE all[t - 1] \o ofType[t, Len(content)]
    IN  all[Len(PIITypes)]

LowerLetters ==
    <<"a", "b", "c", "d", "e", "f", "g", "h", "i", "j", "k", "l", "m", "n",
      "o", "p", "q", "r", "s", "t", "u", "v", "w", "x", "y", "z">>

UpperLetters ==
    <<"A", "B", "C", "D", "E", "F", "G", "H", "I", "J", "K", "L", "M", "N",
      "O", "P", "Q", "R", "S", "T", "U", "V", "W", "X", "Y", "Z">>

\* String.prototype.toLowerCase on one character
lowerChar(c) ==
    IF \E i \in 1..26 : UpperLetters[i] = c
    THEN LowerLetters[CHOOSE i \in 1..26 : UpperLetters[i] = c]
    ELSE c

lowerChars(value) == [i \in 1..Len(value) |-> lowerChar(value[i])]

\* value.slice(-n)
sliceEnd(value, n) ==
    IF Len(value) <= n THEN value ELSE SubSeq(value, Len(value) - n + 1, Len(value))

\* value.substring(0, n)
substringTo(value, n) == SubSeq(value, 1, Min(n, Len(value)))

\* the index of the first c in value, 0 if there is none
indexOfChar(value, c) ==
    IF \E i \in 1..Len(value) : value[i] = c
    THEN CHOOSE i \in 1..Len(value) :
            value[i] = c /\ \A j \in 1..(i - 1) : value[j] # c
    ELSE 0

maskValue(value, type) ==
    CASE type = "email" ->
            \* the pattern leaves exactly one @ in an email value
            LET at == indexOfChar(value, "@")
                local == SubSeq(value, 1, at - 1)
                domain == SubSeq(value, at + 1, Len(value))
            IN  substringTo(local, 2) \o <<"*", "*", "*", "@">> \o domain
      [] type = "phone" ->
            \* value.replace(/\d(?=\d{4})/g, '*')
            [i \in 1..Len(value) |->
                IF /\ isDigit(value[i])
                   /\ i + 4 <= Len(value)
                   /\ \A j \in (i + 1)..(i + 4) : isDigit(value[j])
                THEN "*" ELSE value[i]]
      [] type = "credit_card" ->
            <<"*", "*", "*", "*", " ", "*", "*", "*", "*", " ",
              "*", "*", "*", "*", " ">> \o sliceEnd(value, 4)
      [] type = "ssn" ->
            <<"*", "*", "*", "-", "*", "*", "-">> \o sliceEnd(value, 4)
      [] type = "ip_address" -> value
      [] OTHER ->
            IF Len(value) > 4
            THEN substringTo(value, 2) \o <<"*", "*", "*">> \o sliceEnd(value, 2)
            ELSE <<"*", "*", "*">>

isValidSSN(value) ==
    LET keep(c) == c \notin {"-", " "}
        digits == SelectSeq(value, keep)
    IN  IF Len(digits) # 9 THEN FALSE
        ELSE IF /\ isDigit(digits[1])
                /\ \A i \in 2..Len(digits) : digits[i] = digits[1] THEN FALSE
        ELSE IF \/ SubSeq(digits, 1, 3) = <<"0", "0", "0">>
                \/ SubSeq(digits, 1, 3) = <<"6", "6", "6">>
                \/ digits[1] = "9" THEN FALSE
        ELSE TRUE

isValidPhone(value) ==
    LET digits == digitsOnly(value)
    IN  Len(digits) >= 10 /\ Len(digits) <= 11

\* the checks of "obvious false positives"
passesValidation(type, value) ==
    /\ type = "ssn" => isValidSSN(value)
    /\ type = "phone" => isValidPhone(value)
    /\ type = "credit_card" => isValidCreditCard(value)

\* scan[k] is the state of the loops after k results of exec.  The context
\* of a match (findContext) is not modelled.
detectPII(content, location) ==
    LET found == candidates(content)
        scan[k \in 0..Len(found)] ==
            IF k = 0 THEN [matches |-> <<>>, seenValues |-> {}]
            ELSE LET type == found[k].type
                     value == found[k].value
                     before == scan[k - 1]
                     seenValues == before.seenValues \cup {lowerChars(value)}
                 IN  IF lowerChars(value) \in before.seenValues THEN before
                     ELSE IF ~passesValidation(type, value)
                     THEN [matches |-> before.matches, seenValues |-> seenValues]
                     ELSE [matches |-> Append(before.matches,
                                              [type |-> type,
                                               value |-> maskValue(value, type),
                                               originalValue |-> value,
                                               location |-> location]),
                           seenValues |-> seenValues]
    IN  scan[Len(found)].matches

Locations == {"request", "response", "url"}

CallDetectPII(content, location) ==
    /\ call = None
    /\ call' = Called("detectPII", <<content, location>>, detectPII(content, location))
    /\ UNCHANGED <<aggVars, panelVars>>

NextPII ==
    \/ /\ call = None
       /\ \E value \in CardInputs : CallIsValidCreditCard(value)
    \/ /\ call = None
       /\ \E content \in Contents, location \in Locations :
             CallDetectPII(content, location)
    \/ Return

SpecPII == Init /\ [][NextPII]_vars

----------------------------------------------------------------------------
(* shared/cookie-explanations.ts.  A cookie name is a sequence of characters. *)

\* String.prototype.toUpperCase on one character
upperChar(c) ==
    IF \E i \in 1..26 : LowerLetters[i] = c
    THEN UpperLetters[CHOOSE i \in 1..26 : LowerLetters[i] = c]
    ELSE c

upperChars(value) == [i \in 1..Len(value) |-> upperChar(value[i])]

\* String.prototype.includes
includesChars(value, pattern) ==
    \E i \in 0..(Len(value) - Len(pattern)) :
        SubSeq(value, i + 1, i + Len(pattern)) = pattern

\* The table, in the order of Object.entries; the description of an entry
\* is not modelled.
KNOWN_COOKIES ==
    <<[key |-> <<"s", "e", "s", "s", "i", "o", "n", "i", "d">>,
      name |-> <<"S", "e", "s", "s", "i", "o", "n", " ", "I", "D">>,
      category |-> "essential", risk |-> "low"],
     [key |-> <<"s", "e", "s", "s", "i", "o", "n">>,
      name |-> <<"S", "e", "s", "s", "i", "o", "n">>,
      category |-> "essential", risk |-> "low"],
     [key |-> <<"a", "u", "t", "h">>,
      name |-> <<"A", "u", "t", "h", "e", "n", "t", "i", "c", "a", "t", "i",
                "o", "n">>,
      category |-> "essential", risk |-> "low"],
     [key |-> <<"t", "o", "k", "e", "n">>,
      name |-> <<"A", "u", "t", "h", " ", "T", "o", "k", "e", "n">>,
      category |-> "essential", risk |-> "low"],
     [key |-> <<"c", "s", "r", "f">>,
      name |-> <<"C", "S", "R", "F", " ", "P", "r", "o", "t", "e", "c", "t",
                "i", "o", "n">>,
      category |-> "essential", risk |-> "low"],
     [key |-> <<"x", "s", "r", "f">>,
      name |-> <<"X", "S", "R", "F", " ", "T", "o", "k", "e", "n">>,
      category |-> "essential", risk |-> "low"],
     [key |-> <<"l", "o", "c", "a", "l", "e">>,
      name |-> <<"L", "a", "n", "g", "u", "a", "g", "e">>,
      category |-> "functional", risk |-> "low"],
     [key |-> <<"l", "a", "n", "g">>,
      name |-> <<"L", "a", "n", "g", "u", "a", "g", "e">>,
      category |-> "functional", risk |-> "low"],
     [key |-> <<"t", "h", "e", "m", "e">>,
      name |-> <<"T", "h", "e", "m", "e">>,
      category |-> "functional", risk |-> "low"],
     [key |-> <<"t", "i", "m", "e", "z", "o", "n", "e">>,
      name |-> <<"T", "i", "m", "e", "z", "o", "n", "e">>,
      category |-> "functional", risk |-> "low"],
     [key |-> <<"c", "o", "n", "s", "e", "n", "t">>,
      name |-> <<"C", "o", "o", "k", "i", "e", " ", "C", "o", "n", "s", "e",
                "n", "t">>,
      category |-> "functional", risk |-> "low"],
     [key |-> <<"_", "g", "a">>,
      name |-> <<"G", "o", "o", "g", "l", "e", " ", "A", "n", "a", "l", "y",
                "t", "i", "c", "s">>,
      category |-> "analytics", risk |-> "medium"],
     [key |-> <<"_", "g", "i", "d">>,
      name |-> <<"G", "o", "o", "g", "l", "e", " ", "A", "n", "a", "l", "y",
                "t", "i", "c", "s", " ", "(", "D", "a", "i", "l", "y", ")">>,
      category |-> "analytics", risk |-> "medium"],
     [key |-> <<"_", "g", "a", "t">>,
      name |-> <<"G", "o", "o", "g", "l", "e", " ", "A", "n", "a", "l", "y",
                "t", "i", "c", "s", " ", "(", "T", "h", "r", "o", "t", "t",
                "l", "e", ")">>,
      category |-> "analytics", risk |-> "medium"],
     [key |-> <<"_", "_", "u", "t", "m", "a">>,
      name |-> <<"G", "o", "o", "g", "l", "e", " ", "A", "n", "a", "l", "y",
                "t", "i", "c", "s", " ", "(", "L", "e", "g", "a", "c", "y",
                ")">>,
      category |-> "analytics", risk |-> "medium"],
     [key |-> <<"_", "_", "u", "t", "m", "b">>,
      name |-> <<"G", "o", "o", "g", "l", "e", " ", "A", "n", "a", "l", "y",
                "t", "i", "c", "s", " ", "(", "S", "e", "s", "s", "i", "o",
                "n", ")">>,
      category |-> "analytics", risk |-> "medium"],
     [key |-> <<"_", "_", "u", "t", "m", "c">>,
      name |-> <<"G", "o", "o", "g", "l", "e", " ", "A", "n", "a", "l", "y",
                "t", "i", "c", "s", " ", "(", "S", "e", "s", "s", "i", "o",
                "n", ")">>,
      category |-> "analytics", risk |-> "medium"],
     [key |-> <<"_", "_", "u", "t", "m", "z">>,
      name |-> <<"G", "o", "o", "g", "l", "e", " ", "A", "n", "a", "l", "y",
                "t", "i", "c", "s", " ", "(", "S", "o", "u", "r", "c", "e",
                ")">>,
      category |-> "analytics", risk |-> "medium"],
     [key |-> <<"_", "f", "b", "p">>,
      name |-> <<"F", "a", "c", "e", "b", "o", "o", "k", " ", "P", "i", "x",
                "e", "l">>,
      category |-> "advertising", risk |-> "high"],
     [key |-> <<"f", "r">>,
      name |-> <<"F", "a", "c", "e", "b", "o", "o", "k", " ", "A", "d", "v",
                "e", "r", "t", "i", "s", "i", "n", "g">>,
      category |-> "advertising", risk |-> "high"],
     [key |-> <<"_", "f", "b", "c">>,
      name |-> <<"F", "a", "c", "e", "b", "o", "o", "k", " ", "C", "l", "i",
                "c", "k", " ", "I", "D">>,
      category |-> "advertising", risk |-> "high"],
     [key |-> <<"I", "D", "E">>,
      name |-> <<"G", "o", "o", "g", "l", "e", " ", "D", "o", "u", "b", "l",
                "e", "C", "l", "i", "c", "k">>,
      category |-> "advertising", risk |-> "high"],
     [key |-> <<"_", "_", "g", "a", "d", "s">>,
      name |-> <<"G", "o", "o", "g", "l", "e", " ", "A", "d", "s">>,
      category |-> "advertising", risk |-> "high"],
     [key |-> <<"D", "S", "I", "D">>,
      name |-> <<"G", "o", "o", "g", "l", "e", " ", "D", "o", "u", "b", "l",
                "e", "C", "l", "i", "c", "k">>,
      category |-> "advertising", risk |-> "high"],
     [key |-> <<"_", "g", "c", "l", "_", "a", "u">>,
      name |-> <<"G", "o", "o", "g", "l", "e", " ", "C", "o", "n", "v", "e",
                "r", "s", "i", "o", "n">>,
      category |-> "advertising", risk |-> "high"],
     [key |-> <<"_", "t", "t", "_">>,
      name |-> <<"T", "i", "k", "T", "o", "k", " ", "P", "i", "x", "e", "l">>,
      category |-> "tracking", risk |-> "high"],
     [key |-> <<"_", "p", "i", "n", "t", "e", "r", "e", "s", "t", "_">>,
      name |-> <<"P", "i", "n", "t", "e", "r", "e", "s", "t">>,
      category |-> "tracking", risk |-> "high"],
     [key |-> <<"_", "l", "i", "_">>,
      name |-> <<"L", "i", "n", "k", "e", "d", "I", "n">>,
      category |-> "tracking", risk |-> "high"],
     [key |-> <<"h", "u", "b", "s", "p", "o", "t">>,
      name |-> <<"H", "u", "b", "S", "p", "o", "t">>,
      category |-> "analytics", risk |-> "medium"],
     [key |-> <<"i", "n", "t", "e", "r", "c", "o", "m">>,
      name |-> <<"I", "n", "t", "e", "r", "c", "o", "m">>,
      category |-> "functional", risk |-> "low"],
     [key |-> <<"a", "m", "p", "l", "i", "t", "u", "d", "e">>,
      name |-> <<"A", "m", "p", "l", "i", "t", "u", "d", "e">>,
      category |-> "analytics", risk |-> "medium"],
     [key |-> <<"m", "i", "x", "p", "a", "n", "e", "l">>,
      name |-> <<"M", "i", "x", "p", "a", "n", "e", "l">>,
      category |-> "analytics", risk |-> "medium"],
     [key |-> <<"s", "e", "g", "m", "e", "n", "t">>,
      name |-> <<"S", "e", "g", "m", "e", "n", "t">>,
      category |-> "analytics", risk |-> "medium"]>>

\* what reading a property that an object does not have gives
Undefined == "undefined"

\* The properties every object literal inherits from Object.prototype, with
\* the name, category and risk read from their values: `constructor` is the
\* function Object, `__proto__` is Object.prototype itself, the others are
\* functions named after themselves.
ObjectPrototype ==
    <<[key |-> <<"c", "o", "n", "s", "t", "r", "u", "c", "t", "o", "r">>,
       name |-> <<"O", "b", "j", "e", "c", "t">>,
       category |-> Undefined, risk |-> Undefined],
      [key |-> <<"_", "_", "p", "r", "o", "t", "o", "_", "_">>,
       name |-> <<>>,
       category |-> Undefined, risk |-> Undefined],
      [key |-> <<"t", "o", "S", "t", "r", "i", "n", "g">>,
       name |-> <<"t", "o", "S", "t", "r", "i", "n", "g">>,
       category |-> Undefined, risk |-> Undefined],
      [key |-> <<"v", "a", "l", "u", "e", "O", "f">>,
       name |-> <<"v", "a", "l", "u", "e", "O", "f">>,
       category |-> Undefined, risk |-> Undefined]>>

explanationOf(entry) ==
    [name |-> entry.name, category |-> entry.category, risk |-> entry.risk]

\* the index of the first TRUE of a sequence of booleans, 0 if there is none
firstTrue(flags) ==
    IF \E i \in 1..Len(flags) : flags[i]
    THEN CHOOSE i \in 1..Len(flags) :
            flags[i] /\ \A j \in 1..(i - 1) : ~flags[j]
    ELSE 0

\* KNOWN_COOKIES[key]: the own property, else the inherited one, else None.
\* Every value it can give is an object or a function, hence truthy.
lookup(key) ==
    LET own == firstTrue([i \in 1..Len(KNOWN_COOKIES) |->
                              KNOWN_COOKIES[i].key = key])
        inherited == firstTrue([i \in 1..Len(ObjectPrototype) |->
                                    ObjectPrototype[i].key = key])
    IN  IF own # 0 THEN Some(explanationOf(KNOWN_COOKIES[own]))
        ELSE IF inherited # 0
        THEN Some(explanationOf(ObjectPrototype[inherited]))
        ELSE None

getCookieExplanation(cookieName) ==
    LET lowerCookieName == lowerChars(cookieName)
        has(word) == includesChars(lowerCookieName, word)
        pattern == firstTrue([i \in 1..Len(KNOWN_COOKIES) |->
                                  has(lowerChars(KNOWN_COOKIES[i].key))])
    IN  IF lookup(lowerCookieName) # None THEN lookup(lowerCookieName)[1]
        ELSE IF pattern # 0 THEN explanationOf(KNOWN_COOKIES[pattern])
        ELSE IF \/ has(<<"s", "e", "s", "s", "i", "o", "n">>)
                \/ has(<<"s", "e", "s", "s">>)
        THEN [name |-> <<"S", "e", "s", "s", "i", "o", "n", " ", "C", "o", "o",
                         "k", "i", "e">>,
              category |-> "essential", risk |-> "low"]
        ELSE IF \/ has(<<"a", "u", "t", "h">>)
                \/ has(<<"l", "o", "g", "i", "n">>)
                \/ has(<<"u", "s", "e", "r">>)
        THEN [name |-> <<"A", "u", "t", "h", "e", "n", "t", "i", "c", "a", "t",
                         "i", "o", "n">>,
              category |-> "essential", risk |-> "low"]
        ELSE IF \/ has(<<"a", "n", "a", "l", "y", "t", "i", "c", "s">>)
                \/ has(<<"s", "t", "a", "t">>)
                \/ has(<<"t", "r", "a", "c", "k">>)
        THEN [name |-> <<"A", "n", "a", "l", "y", "t", "i", "c", "s", "/", "T",
                         "r", "a", "c", "k", "i", "n", "g">>,
              category |-> "analytics", risk |-> "medium"]
        ELSE IF \/ has(<<"a", "d">>)
                \/ has(<<"c", "a", "m", "p", "a", "i", "g", "n">>)
                \/ has(<<"p", "r", "o", "m", "o">>)
        THEN [name |-> <<"A", "d", "v", "e", "r", "t", "i", "s", "i", "n", "g">>,
              category |-> "advertising", risk |-> "high"]
        ELSE [name |-> cookieName, category |-> "unknown", risk |-> "medium"]

\* the names tried: a stem, alone or between a prefix and a suffix, as
\* written, in upper case or in lower case
CookieStems ==
    {<<"_", "g", "a">>,
     <<"s", "e", "s", "s", "i", "o", "n", "i", "d">>,
     <<"_", "g", "a", "t">>,
     <<"_", "_", "g", "a", "d", "s">>,
     <<"I", "D", "E">>,
     <<"D", "S", "I", "D">>,
     <<"f", "r">>,
     <<"c", "s", "r", "f", "t", "o", "k", "e", "n">>,
     <<"P", "H", "P", "S", "E", "S", "S", "I", "D">>,
     <<"l", "o", "g", "i", "n">>,
     <<"u", "s", "e", "r", "p", "r", "e", "f">>,
     <<"s", "t", "a", "t", "s">>,
     <<"t", "r", "a", "c", "k", "e", "r">>,
     <<"a", "d">>,
     <<"c", "a", "m", "p", "a", "i", "g", "n">>,
     <<"p", "r", "o", "m", "o">>,
     <<"x", "y", "z">>,
     <<"l", "o", "c", "a", "l", "e">>,
     <<"c", "o", "n", "s", "t", "r", "u", "c", "t", "o", "r">>,
     <<"_", "_", "p", "r", "o", "t", "o", "_", "_">>}

CookiePrefixes == {<<>>, <<"m", "y", "_">>}

CookieSuffixes == {<<>>, <<"_", "2">>}

CookieNames ==
    LET written == {pre \o stem \o suf : pre \in CookiePrefixes,
                                         stem \in CookieStems,
                                         suf \in CookieSuffixes}
    IN  written \cup {upperChars(n) : n \in written}
                \cup {lowerChars(n) : n \in written}

CallGetCookieExplanation(cookieName) ==
    /\ call = None
    /\ call' = Called("getCookieExplanation", <<cookieName>>,
                      getCookieExplanation(cookieName))
    /\ UNCHANGED <<aggVars, panelVars>>

NextCookies ==
    \/ /\ call = None
       /\ \E cookieName \in CookieNames : CallGetCookieExplanation(cookieName)
    \/ Return

SpecCookies == Init /\ [][NextCookies]_vars

----------------------------------------------------------------------------
(* Properties of the service-worker aggregator *)

Range(s) == {s[i] : i \in 1..Len(s)}

Handled(kind) == lastEvent # None /\ lastEvent[1].kind = kind

HandledFor(kind, tabId) ==
    lastEvent # None /\ lastEvent[1].kind = kind /\ lastEvent[1].tabId = Some(tabId)

HasRecord(td, tabId, requestId) ==
    /\ MapHas(td, tabId)
    /\ \E i \in 1..Len(td[tabId].requests) : td[tabId].requests[i].id = requestId

\* C1: the stats of every session equal the values recomputed from its
\* record list: the counts of all, third-party, first-party and tracker
\* records, and the sets of tracker domains and of all domains.
C1_StatsDerivedFromRecords ==
    \A t \in DOMAIN tabData :
        LET reqs == tabData[t].requests
            stats == tabData[t].stats
            idx == 1..Len(reqs)
        IN  /\ stats.totalRequests = Len(reqs)
            /\ stats.thirdPartyCount = Cardinality({i \in idx : reqs[i].isThirdParty})
            /\ stats.firstPartyCount = Cardinality({i \in idx : ~reqs[i].isThirdParty})
            /\ stats.trackerCount = Cardinality({i \in idx : reqs[i].isTracker})
            /\ Range(stats.trackerDomains) =
                   {reqs[i].domain : i \in {j \in idx : reqs[j].isTracker}}
            /\ Range(stats.uniqueDomains) = {reqs[i].domain : i \in idx}

\* a session with a first-party record and a third-party tracker record,
\* just after a completed event updated one of them
C1_Witness ==
    /\ Handled("completed")
    /\ lastEvent[1].before.found
    /\ \E t \in DOMAIN tabData :
          /\ Len(tabData[t].requests) = 2
          /\ tabData[t].stats.trackerCount = 1
          /\ tabData[t].stats.thirdPartyCount = 1
          /\ tabData[t].stats.firstPartyCount = 1

\* C2: after a tab-navigated event for tab t the session of t has no
\* records, zero stats, empty domain sets and the new URL as page URL.
C2_NavigationResetsSession ==
    \A t \in Tabs :
        HandledFor("tab-navigated", t) =>
            /\ MapHas(tabData, t)
            /\ tabData[t].requests = <<>>
            /\ tabData[t].stats.totalRequests = 0
            /\ tabData[t].stats.firstPartyCount = 0
            /\ tabData[t].stats.thirdPartyCount = 0
            /\ tabData[t].stats.trackerCount = 0
            /\ tabData[t].stats.trackerDomains = <<>>
            /\ tabData[t].stats.uniqueDomains = <<>>
            /\ lastEvent[1].url # ""
            /\ tabData[t].pageUrl = lastEvent[1].url

\* a navigation of a tab whose session held two records, one of them
\* initiated but not completed, under another page URL
C2_Witness ==
    /\ Handled("tab-navigated")
    /\ lastEvent[1].before.records = 2
    /\ lastEvent[1].before.pending = 1

\* C3: a completed, requestHeaders or responseHeaders event whose request
\* id has no record in the session of its tab, or whose tab has no session,
\* changes no session and creates none.
C3_UnknownIdIsNoOp ==
    [][(/\ lastEvent' # None
        /\ lastEvent'[1].kind \in {"completed", "requestHeaders", "responseHeaders"}
        /\ ~lastEvent'[1].before.found)
       => /\ tabData' = tabData
          /\ tabUrls' = tabUrls]_vars

\* a completed event for an id without record, in a session that holds a
\* record of another request
C3_Witness ==
    /\ Handled("completed")
    /\ lastEvent[1].before.session
    /\ lastEvent[1].before.records = 1
    /\ ~lastEvent[1].before.found

\* C4: any two distinct records of one session have different ids.
C4_IdsUniqueInSession ==
    \A t \in DOMAIN tabData :
        \A i, j \in 1..Len(tabData[t].requests) :
            i # j => tabData[t].requests[i].id # tabData[t].requests[j].id

WebRequestKinds == {"begin", "completed", "requestHeaders", "responseHeaders"}

\* C5: across a begin, header or completed event every record keeps a
\* non-zero status non-zero and a set endTime and duration set; and a
\* completed event leaves the record it finds with status = statusCode,
\* endTime = timeStamp and duration = timeStamp - startTime.
C5_StatusAndTimingMonotone ==
    [][/\ (lastEvent' # None /\ lastEvent'[1].kind \in WebRequestKinds) =>
             \A t \in DOMAIN tabData :
                 /\ MapHas(tabData', t)
                 /\ \A i \in 1..Len(tabData[t].requests) :
                       LET old == tabData[t].requests[i]
                       IN  /\ i <= Len(tabData'[t].requests)
                           /\ old.status # 0 =>
                                 tabData'[t].requests[i].status # 0
                           /\ old.timing.endTime # None =>
                                 tabData'[t].requests[i].timing.endTime # None
                           /\ old.timing.duration # None =>
                                 tabData'[t].requests[i].timing.duration # None
       /\ \A t \in Tabs, r \in RequestIds, inp \in CompletedInputs :
             (OnCompleted(t, r, inp) /\ HasRecord(tabData, t, r)) =>
                 LET i == findIndex(tabData[t].requests, r)
                     new == tabData'[t].requests[i]
                 IN  /\ new.status = inp.statusCode
                     /\ new.timing.endTime = Some(inp.timeStamp)
                     /\ new.timing.duration =
                            Some(inp.timeStamp - tabData[t].requests[i].timing.startTime)
      ]_vars

\* a begin event that repeats the id of a record which is already completed
C5_Witness ==
    /\ Handled("begin")
    /\ lastEvent[1].before.found
    /\ lastEvent[1].before.pending = 0
    /\ \E t \in DOMAIN tabData :
          /\ lastEvent[1].tabId = Some(t)
          /\ Len(tabData[t].requests) = 2
          /\ tabData[t].requests[1].status = 404
          /\ tabData[t].requests[1].timing.duration # None

\* C7 as stated: a session comes into existence for a tab only in a
\* tab-navigated or begin event for that tab.
C7_CreatedOnlyByNavigationOrBegin ==
    [][\A t \in TabIds :
          (~MapHas(tabData, t) /\ MapHas(tabData', t)) =>
              \/ HandledFor("tab-navigated", t)'
              \/ HandledFor("begin", t)']_vars

\* C7 amended: a session comes into existence for a tab only in a
\* tab-navigated event, a begin event or a CLEAR_TAB message carrying that
\* tab's id; no session ever exists for a negative tabId.
C7_CreatedOnlyByNavigationBeginOrClear ==
    [][/\ \A t \in TabIds :
             (~MapHas(tabData, t) /\ MapHas(tabData', t)) =>
                 \/ HandledFor("tab-navigated", t)'
                 \/ HandledFor("begin", t)'
                 \/ HandledFor("CLEAR_TAB", t)'
       /\ \A t \in DOMAIN tabData' : t >= 0]_vars

\* a CLEAR_TAB message for a tab without session has left it with one
C7_Witness ==
    /\ Handled("CLEAR_TAB")
    /\ lastEvent[1].tabId # None
    /\ ~lastEvent[1].before.session
    /\ MapHas(tabData, lastEvent[1].tabId[1])

NotFound == Payload(Some(TRUE), Some(None), None, None)

\* C8: after a tab-closed event for tab t neither a session nor a page URL
\* is stored for t, GET_TAB_DATA for t is answered with success and null
\* data, and no completed or header event for t changes anything.
C8_TabCloseDiscardsSession ==
    \A t \in Tabs :
        HandledFor("tab-closed", t) =>
            /\ ~MapHas(tabData, t)
            /\ ~MapHas(tabUrls, t)
            /\ getTabDataResponse(tabData, [type |-> "GET_TAB_DATA", tabId |-> Some(t)])
                   = NotFound
            /\ \A r \in RequestIds :
                  /\ \A inp \in CompletedInputs :
                        handleCompleted(tabData,
                            [tabId |-> t, requestId |-> r,
                             statusCode |-> inp.statusCode,
                             timeStamp |-> inp.timeStamp]) = tabData
                  /\ \A h \in RequestHeaderInputs :
                        handleRequestHeaders(tabData,
                            [tabId |-> t, requestId |-> r, requestHeaders |-> h])
                            = tabData
                  /\ \A h \in ResponseHeaderInputs :
                        handleResponseHeaders(tabData,
                            [tabId |-> t, requestId |-> r, responseHeaders |-> h])
                            = tabData

\* the close of a tab whose session held a request that had not completed,
\* while the other tab keeps its session
C8_Witness ==
    /\ Handled("tab-closed")
    /\ lastEvent[1].before.session
    /\ lastEvent[1].before.pending >= 1
    /\ DOMAIN tabData # {}

ImmutablePart(r) ==
    <<r.id, r.url, r.method, r.type, r.domain, r.isThirdParty, r.isTracker,
      r.timing.startTime>>

\* every record of the session of t is, after the step, at the same
\* position of the session of t with the same identity fields
KeepsRecords(t) ==
    /\ MapHas(tabData', t)
    /\ Len(tabData'[t].requests) >= Len(tabData[t].requests)
    /\ \A i \in 1..Len(tabData[t].requests) :
          ImmutablePart(tabData'[t].requests[i]) = ImmutablePart(tabData[t].requests[i])

\* C9 as stated: across any step that is not a tab-navigated or tab-closed
\* event for the tab, the record list of its session only grows at the end
\* and every record keeps its position, id, url, method, type, domain,
\* classification and startTime.
C9_RecordsOnlyAppended ==
    [][\A t \in DOMAIN tabData :
          ~(HandledFor("tab-navigated", t)' \/ HandledFor("tab-closed", t)')
              => KeepsRecords(t)]_vars

\* C9 amended: the same, across any step that is not a tab-navigated or
\* tab-closed event or a CLEAR_TAB message for the tab.
C9_RecordsOnlyAppendedUnlessCleared ==
    [][\A t \in DOMAIN tabData :
          ~(\/ HandledFor("tab-navigated", t)'
            \/ HandledFor("tab-closed", t)'
            \/ HandledFor("CLEAR_TAB", t)')
              => KeepsRecords(t)]_vars

\* a begin event has appended a second record to a session
C9_Witness ==
    /\ Handled("begin")
    /\ lastEvent[1].before.records = 1
    /\ \E t \in DOMAIN tabData :
          /\ lastEvent[1].tabId = Some(t)
          /\ Len(tabData[t].requests) = 2
          /\ tabData[t].requests[1].url # tabData[t].requests[2].url

\* C10: a GET_TAB_DATA or CLEAR_TAB message without tabId is answered with
\* success = false and an error text, and changes no session and no stored
\* page URL.
C10_MissingTabIdFails ==
    [][(/\ lastEvent' # None
        /\ lastEvent'[1].kind \in {"GET_TAB_DATA", "CLEAR_TAB"}
        /\ lastEvent'[1].tabId = None)
       => /\ response' # NoResponse
          /\ response'[1].success = Some(FALSE)
          /\ response'[1].error # None
          /\ response'[1].error # Some("")
          /\ tabData' = tabData
          /\ tabUrls' = tabUrls]_vars

\* a GET_TAB_DATA message without tabId, received while sessions exist
C10_Witness ==
    /\ Handled("GET_TAB_DATA")
    /\ lastEvent[1].tabId = None
    /\ response # NoResponse
    /\ \E t \in DOMAIN tabData : Len(tabData[t].requests) >= 1

\* C11: a CLEAR_TAB message with tabId t is answered with success = true
\* and leaves t with a session of no records and zeroed stats whose pageUrl
\* is the URL of t's last navigation (empty when none is stored); in such
\* a session a completed or header event for t changes nothing, and a begin
\* event for t adds one record classified against that page URL.
C11_ClearTabLeavesEmptySession ==
    /\ [](\A t \in Tabs :
            HandledFor("CLEAR_TAB", t) =>
                /\ response = Some(Payload(Some(TRUE), None, None, None))
                /\ MapHas(tabData, t)
                /\ tabData[t].requests = <<>>
                /\ tabData[t].stats = ZeroStats
                /\ tabData[t].pageUrl = IF t \in DOMAIN tabUrls THEN tabUrls[t] ELSE "")
    /\ [][\A t \in Tabs :
            (/\ MapHas(tabData, t)
             /\ tabData[t].requests = <<>>
             /\ lastEvent' # None
             /\ lastEvent'[1].tabId = Some(t))
            => /\ lastEvent'[1].kind \in {"completed", "requestHeaders", "responseHeaders"}
                  => tabData' = tabData
               /\ lastEvent'[1].kind = "begin"
                  => /\ tabData'[t].pageUrl = tabData[t].pageUrl
                     /\ Len(tabData'[t].requests) = 1
                     /\ tabData'[t].requests[1].isThirdParty =
                           isThirdParty(lastEvent'[1].url, tabData[t].pageUrl)
                     /\ tabData'[t].requests[1].isTracker =
                           isTrackerDomain(getDomain(lastEvent'[1].url))]_vars

\* a CLEAR_TAB for a tab whose page URL is stored and whose session held a
\* record
C11_Witness ==
    /\ Handled("CLEAR_TAB")
    /\ lastEvent[1].before.records > 0
    /\ \E t \in DOMAIN tabUrls :
          /\ lastEvent[1].tabId = Some(t)
          /\ tabData[t].requests = <<>>
          /\ tabData[t].pageUrl = tabUrls[t]
          /\ tabData[t].pageUrl # ""

\* C13: for a request that has a record, applying a completed event and a
\* responseHeaders (or requestHeaders) event in either order gives the same
\* sessions, and a requestHeaders event changes nothing but the
\* requestHeaders field of the record (status included).  The sessions
\* are examined whenever the event loop is idle: every listener returns to
\* the loop with the sessions it left.
C13_OverlaysCommute ==
    \A t \in Tabs, r \in RequestIds :
        (Idle /\ HasRecord(tabData, t, r)) =>
            \A c \in CompletedInputs :
                LET completed == [tabId |-> t, requestId |-> r,
                                  statusCode |-> c.statusCode,
                                  timeStamp |-> c.timeStamp]
                IN  /\ \A h \in ResponseHeaderInputs :
                          LET received == [tabId |-> t, requestId |-> r,
                                           responseHeaders |-> h]
                          IN  handleResponseHeaders(handleCompleted(tabData, completed), received)
                              = handleCompleted(handleResponseHeaders(tabData, received), completed)
                    /\ \A h \in RequestHeaderInputs :
                          LET sent == [tabId |-> t, requestId |-> r,
                                       requestHeaders |-> h]
                              after == handleRequestHeaders(tabData, sent)
                              i == findIndex(tabData[t].requests, r)
                          IN  /\ handleRequestHeaders(handleCompleted(tabData, completed), sent)
                                 = handleCompleted(after, completed)
                              /\ [after EXCEPT ![t].requests[i].requestHeaders =
                                     tabData[t].requests[i].requestHeaders] = tabData

\* a record that has received the completed overlay and both header
\* overlays
C13_Witness ==
    /\ Idle
    /\ \E t \in DOMAIN tabData :
        \E i \in 1..Len(tabData[t].requests) :
            /\ tabData[t].requests[i].status # 0
            /\ tabData[t].requests[i].responseHeaders # None
            /\ tabData[t].requests[i].requestHeaders # None
            /\ tabData[t].requests[i].mimeType # None

----------------------------------------------------------------------------
(* Properties of the DevTools panel feed *)

\* C12: every record of the panel's request list carries the
\* classification classifyRequest gives for its URL against the URL of the
\* inspected page.
C12_PanelClassificationIsClassifyRequest ==
    \A i \in 1..Len(requests) :
        LET classification == classifyRequest(requests[i].url, inspectedUrl)
        IN  /\ requests[i].isThirdParty = classification.isThirdParty
            /\ requests[i].isTracker = classification.isTracker

\* the page a panel record, HAR entry or cached body was produced on is the
\* page now inspected
Live(id) == MapHas(origin, id) /\ origin[id] = navigations

\* C6: no callback of a requestFinished event that completes after a
\* navigated() reset writes into the post-navigation state: every record in
\* the request list, every entry of harRequestMap and every body in the
\* response cache belongs to the page now inspected.
C6_NoStaleWriteAfterNavigation ==
    /\ \A i \in 1..Len(requests) : Live(requests[i].id)
    /\ \A id \in DOMAIN harRequestMap : Live(id)
    /\ \A id \in DOMAIN responseCache : Live(id)

----------------------------------------------------------------------------
(* Properties of the domain utilities *)

CalledFn(fn) == call # None /\ call[1].fn = fn

\* C14: for all URLs u and v, isThirdParty(u, u) = false and
\* isThirdParty(u, v) = isThirdParty(v, u).
C14_ThirdPartyIrreflexiveSymmetric ==
    CalledFn("isThirdParty") =>
        LET u == call[1].args[1]
            v == call[1].args[2]
        IN  /\ call[1].result = isThirdParty(v, u)
            /\ u = v => call[1].result = FALSE

\* a call with two different URLs that parse, answered true
C14_Witness ==
    /\ CalledFn("isThirdParty")
    /\ call[1].args[1] # call[1].args[2]
    /\ getDomain(call[1].args[1]) # EmptyHost
    /\ getDomain(call[1].args[2]) # EmptyHost
    /\ call[1].result = TRUE

\* C15: getBaseDomain(getBaseDomain(h)) = getBaseDomain(h) for every
\* hostname h.
C15_BaseDomainIdempotent ==
    CalledFn("getBaseDomain") => getBaseDomain(call[1].result) = call[1].result

\* C16: isThirdParty returns false when either URL does not parse to a
\* non-empty hostname; otherwise it returns true exactly when the
\* registrable domains of the two hostnames differ, so that a host and the
\* same host behind a leading www, or behind one more subdomain label, are
\* first-party to each other, and two different names under the same listed
\* two-part suffix are third-party to each other.
C16_ThirdPartyByRegistrableDomain ==
    CalledFn("isThirdParty") =>
        LET requestDomain == getDomain(call[1].args[1])
            pageDomain == getDomain(call[1].args[2])
            result == call[1].result
            n == Len(requestDomain)
            m == Len(pageDomain)
        IN  IF requestDomain = EmptyHost \/ pageDomain = EmptyHost
            THEN result = FALSE
            ELSE /\ result = (getBaseDomain(requestDomain) # getBaseDomain(pageDomain))
                 /\ requestDomain = <<"www">> \o pageDomain => result = FALSE
                 /\ (/\ m >= 2
                     /\ pageDomain \notin twoPartTLDs
                     /\ n = m + 1
                     /\ Tail(requestDomain) = pageDomain) => result = FALSE
                 /\ (/\ n >= 3
                     /\ m >= 3
                     /\ SubSeq(requestDomain, n - 1, n) \in twoPartTLDs
                     /\ SubSeq(requestDomain, n - 1, n) = SubSeq(pageDomain, m - 1, m)
                     /\ requestDomain[n - 2] # pageDomain[m - 2]) => result = TRUE

\* C17: isTrackerDomain(h) is true exactly when h, lower-cased and without
\* a leading www, is in the tracker set or has a proper suffix of two labels
\* or more in it; every subdomain of googlesyndication.com matches, and a
\* host whose label only ends with the label of a listed domain does not.
C17_TrackerMatchByLabelSuffix ==
    CalledFn("isTrackerDomain") =>
        LET h == call[1].args[1]
            lower == [i \in 1..Len(h) |-> LowerLabel(h[i])]
            parts == IF Len(lower) >= 2 /\ lower[1] = "www"
                     THEN SubSeq(lower, 2, Len(lower)) ELSE lower
            n == Len(parts)
            listed == \E k \in 2..n : SubSeq(parts, n - k + 1, n) \in TRACKER_DOMAINS
        IN  /\ call[1].result = (parts \in TRACKER_DOMAINS \/ listed)
            /\ (n >= 3 /\ SubSeq(parts, n - 1, n) = <<"googlesyndication", "com">>)
                  => call[1].result = TRUE
            /\ parts = <<"notdoubleclick", "net">> => call[1].result = FALSE

\* a subdomain of a listed domain, two labels below it, found a tracker
C17_Witness ==
    /\ CalledFn("isTrackerDomain")
    /\ call[1].args[1] = <<"www", "pagead2", "googlesyndication", "com">>
    /\ call[1].result = TRUE

----------------------------------------------------------------------------
(* Properties of the privacy score *)

\* C18: the breakdown is: trackerPenalty 0 without trackers, else
\* min(8 * trackerCount, 40), plus 10 when totalRequests > 0 and the
\* trackers are more than a tenth of the requests; thirdPartyPenalty 30, 20,
\* 10 or 0 for a third-party ratio above 0.7, 0.5, 0.3 or not (0 without
\* requests); domainPenalty 20, 15, 8, 3 or 0 for more than 30, 20, 10, 5
\* unique domains or not.  20 requests, 15 third-party, 3 trackers and 12
\* domains give 34, 30, 8, the score 28 and the grade F.
C18_PenaltyBreakdown ==
    CalledFn("calculatePrivacyScore") =>
        LET stats == call[1].args[1]
            result == call[1].result
            total == stats.totalRequests
            third == stats.thirdPartyCount
            trackers == stats.trackerCount
            domains == Len(stats.uniqueDomains)
        IN  /\ result.breakdown.trackerPenalty =
                  IF trackers = 0 THEN 0
                  ELSE (IF 8 * trackers < 40 THEN 8 * trackers ELSE 40)
                       + (IF total > 0 /\ 10 * trackers > total THEN 10 ELSE 0)
            /\ result.breakdown.thirdPartyPenalty =
                  IF total = 0 THEN 0
                  ELSE IF 10 * third > 7 * total THEN 30
                  ELSE IF 10 * third > 5 * total THEN 20
                  ELSE IF 10 * third > 3 * total THEN 10
                  ELSE 0
            /\ result.breakdown.domainPenalty =
                  IF domains > 30 THEN 20
                  ELSE IF domains > 20 THEN 15
                  ELSE IF domains > 10 THEN 8
                  ELSE IF domains > 5 THEN 3
                  ELSE 0
            /\ (total = 20 /\ third = 15 /\ trackers = 3 /\ domains = 12)
                  => /\ result.breakdown = [trackerPenalty |-> 34,
                                            thirdPartyPenalty |-> 30,
                                            domainPenalty |-> 8]
                     /\ result.score = 28
                     /\ result.grade = "F"

\* the call with 20 requests, 15 third-party, 3 trackers and 12 domains
C18_Witness ==
    /\ CalledFn("calculatePrivacyScore")
    /\ call[1].args[1].totalRequests = 20
    /\ call[1].args[1].thirdPartyCount = 15
    /\ call[1].args[1].trackerCount = 3
    /\ Len(call[1].args[1].uniqueDomains) = 12
    /\ call[1].result.score = 28

\* C19: the score lies in 0..100 and is 100 minus the three penalties,
\* clamped to that range; the grade is A from 90, B from 75, C from 60, D
\* from 40 and F below.
C19_ScoreClampedAndGraded ==
    CalledFn("calculatePrivacyScore") =>
        LET result == call[1].result
            raw == 100 - result.breakdown.trackerPenalty
                       - result.breakdown.thirdPartyPenalty
                       - result.breakdown.domainPenalty
        IN  /\ result.score \in 0..100
            /\ result.score = IF raw < 0 THEN 0 ELSE IF raw > 100 THEN 100 ELSE raw
            /\ result.grade = "A" <=> result.score >= 90
            /\ result.grade = "B" <=> (75 <= result.score /\ result.score < 90)
            /\ result.grade = "C" <=> (60 <= result.score /\ result.score < 75)
            /\ result.grade = "D" <=> (40 <= result.score /\ result.score < 60)
            /\ result.grade = "F" <=> result.score < 40

\* a call whose penalties add up to 100: the score is 0
C19_Witness ==
    /\ CalledFn("calculatePrivacyScore")
    /\ call[1].result.breakdown.trackerPenalty = 50
    /\ call[1].result.breakdown.thirdPartyPenalty = 30
    /\ call[1].result.breakdown.domainPenalty = 20
    /\ call[1].result.score = 0
    /\ call[1].result.grade = "F"

\* C20: the details are, in this order, the tracker line (iff trackerCount
\* > 0, naming the first three tracker domains at most), the third-party
\* line (iff the ratio exceeds 0.3), the domain-count line (iff more than 10
\* unique domains) and the positive note, which is there exactly when the
\* score is 80 or more and no issue line is.
C20_DetailsOrder ==
    CalledFn("calculatePrivacyScore") =>
        LET stats == call[1].args[1]
            result == call[1].result
            names == stats.trackerDomains
            named == IF Len(names) > 3 THEN SubSeq(names, 1, 3) ELSE names
            trackerLine ==
                ToString(stats.trackerCount)
                \o (IF stats.trackerCount > 1 THEN " trackers" ELSE " tracker")
                \o " detected (" \o joinWith(named, ", ")
                \o (IF Len(names) > 3 THEN "...)" ELSE ")")
            issues ==
                (IF stats.trackerCount > 0 THEN <<trackerLine>> ELSE <<>>)
                \o (IF /\ stats.totalRequests > 0
                       /\ 10 * stats.thirdPartyCount > 3 * stats.totalRequests
                    THEN thirdPartyDetails(stats) ELSE <<>>)
                \o (IF Len(stats.uniqueDomains) > 10
                    THEN domainDetails(stats) ELSE <<>>)
        IN  /\ Len(thirdPartyDetails(stats)) <= 1
            /\ Len(domainDetails(stats)) <= 1
            /\ result.details = IF result.score >= 80 /\ issues = <<>>
                                THEN <<PositiveNote>>
                                ELSE issues

\* a call that reports all three issues, with more tracker domains than the
\* line names
C20_Witness ==
    /\ CalledFn("calculatePrivacyScore")
    /\ Len(call[1].result.details) = 3
    /\ Len(call[1].args[1].trackerDomains) = 4
    /\ call[1].result.details[1] =
          "4 trackers detected (doubleclick.net, google-analytics.com, facebook.net...)"

----------------------------------------------------------------------------
(* Properties of the PII detector *)

\* C21: isValidCreditCard(s) is true exactly when s has 13 to 19 digits and
\* its Luhn sum (from the rightmost digit, every second digit doubled, 9
\* subtracted from a doubled digit above 9) is divisible by 10;
\* 4111111111111111 is valid, 4111111111111112 is not, and a valid number
\* with any one digit changed is invalid.
C21_LuhnValidation ==
    CalledFn("isValidCreditCard") =>
        LET value == call[1].args[1]
            at == {i \in 1..Len(value) : isDigit(value[i])}
            n == Cardinality(at)
            \* the place of the digit at index i, counted from the right
            place(i) == Cardinality({j \in at : j >= i})
            term(i) == LET d == digitOf(value[i])
                       IN  IF place(i) % 2 = 1 THEN d
                           ELSE IF d >= 5 THEN 2 * d - 9 ELSE 2 * d
            luhn == LET upTo[k \in 0..Len(value)] ==
                            IF k = 0 THEN 0
                            ELSE upTo[k - 1] + (IF k \in at THEN term(k) ELSE 0)
                    IN  upTo[Len(value)]
        IN  /\ call[1].result = (n >= 13 /\ n <= 19 /\ luhn % 10 = 0)
            /\ value = Visa16 => call[1].result = TRUE
            /\ value = withChar(Visa16, 16, "2") => call[1].result = FALSE
            /\ call[1].result = TRUE =>
                  \A pos \in at, d \in 1..10 :
                      DigitChars[d] # value[pos] =>
                          ~isValidCreditCard(withChar(value, pos, DigitChars[d]))

\* the test Visa number, found valid
C21_Witness ==
    /\ CalledFn("isValidCreditCard")
    /\ call[1].args[1] = Visa16
    /\ call[1].result = TRUE

\* the matches of the scan just made
Matches == call[1].result

\* C22: in the match list of one detectPII scan no two matches have the
\* same lower-cased original value, and a value the patterns found is left
\* out only if a match with that lower-cased value was emitted: every found
\* value that passes the checks of its category has a match.
C22_DedupOnlyEmitted ==
    CalledFn("detectPII") =>
        /\ \A i, j \in 1..Len(Matches) :
              i # j => lowerChars(Matches[i].originalValue)
                       # lowerChars(Matches[j].originalValue)
        /\ LET found == candidates(call[1].args[1])
           IN  \A k \in 1..Len(found) :
                  passesValidation(found[k].type, found[k].value) =>
                      \E i \in 1..Len(Matches) :
                          lowerChars(Matches[i].originalValue)
                          = lowerChars(found[k].value)

\* C23: the masked value of every phone, credit-card or SSN match shows no
\* digit of the original but its last four.
C23_MaskShowsLastFourOnly ==
    CalledFn("detectPII") =>
        \A i \in 1..Len(Matches) :
            Matches[i].type \in {"phone", "credit_card", "ssn"} =>
                digitsOnly(Matches[i].value)
                = sliceEnd(digitsOnly(Matches[i].originalValue), 4)

----------------------------------------------------------------------------
(* Properties of the cookie explanations *)

CookieCategories ==
    {"essential", "functional", "analytics", "advertising", "tracking", "unknown"}

CookieRisks == {"low", "medium", "high"}

\* the category and risk of an explanation
kindOf(explanation) == <<explanation.category, explanation.risk>>

\* the category and risk the stated precedence gives a lower-cased name
precedenceOf(lower) ==
    LET has(word) == includesChars(lower, word)
        exact == firstTrue([i \in 1..Len(KNOWN_COOKIES) |->
                                KNOWN_COOKIES[i].key = lower])
        first == firstTrue([i \in 1..Len(KNOWN_COOKIES) |->
                                has(lowerChars(KNOWN_COOKIES[i].key))])
    IN  IF exact # 0 THEN kindOf(KNOWN_COOKIES[exact])
        ELSE IF first # 0 THEN kindOf(KNOWN_COOKIES[first])
        ELSE IF \/ has(<<"s", "e", "s", "s", "i", "o", "n">>)
                \/ has(<<"s", "e", "s", "s">>)
        THEN <<"essential", "low">>
        ELSE IF \/ has(<<"a", "u", "t", "h">>)
                \/ has(<<"l", "o", "g", "i", "n">>)
                \/ has(<<"u", "s", "e", "r">>)
        THEN <<"essential", "low">>
        ELSE IF \/ has(<<"a", "n", "a", "l", "y", "t", "i", "c", "s">>)
                \/ has(<<"s", "t", "a", "t">>)
                \/ has(<<"t", "r", "a", "c", "k">>)
        THEN <<"analytics", "medium">>
        ELSE IF \/ has(<<"a", "d">>)
                \/ has(<<"c", "a", "m", "p", "a", "i", "g", "n">>)
                \/ has(<<"p", "r", "o", "m", "o">>)
        THEN <<"advertising", "high">>
        ELSE <<"unknown", "medium">>

\* C24: the explanation of a cookie name has the category and risk of the
\* first rule that applies (exact key, first key contained in the name,
\* keywords in their order, unknown), a category among the six and a risk
\* among the three, the same category and risk as every other casing of the
\* name, and is analytics/medium for _ga and essential/low for sessionid.
C24_CookiePrecedence ==
    CalledFn("getCookieExplanation") =>
        LET cookieName == call[1].args[1]
            explanation == call[1].result
        IN  /\ explanation.category \in CookieCategories
            /\ explanation.risk \in CookieRisks
            /\ kindOf(explanation) = precedenceOf(lowerChars(cookieName))
            /\ \A other \in {upperChars(cookieName), lowerChars(cookieName)} :
                  kindOf(getCookieExplanation(other)) = kindOf(explanation)
            /\ cookieName = <<"_", "g", "a">> =>
                  kindOf(explanation) = <<"analytics", "medium">>
            /\ cookieName = <<"s", "e", "s", "s", "i", "o", "n", "i", "d">> =>
                  kindOf(explanation) = <<"essential", "low">>

----------------------------------------------------------------------------
(* Further properties of the DevTools panel feed *)

\* C25: no handler of the panel feed raises on malformed input: the
\* listener or callback that ran last completed, and a record made from a
\* requestFinished or getHAR entry whose URL does not parse has the empty
\* domain and isThirdParty = false.
C25_NoHandlerRaises ==
    /\ ~raised
    /\ \A i \in 1..Len(requests) :
          ~parses(requests[i].url) =>
              requests[i].domain = EmptyHost /\ ~requests[i].isThirdParty
    /\ \A cb \in tabsGetPending :
          ~parses(cb.request.url) =>
              cb.request.domain = EmptyHost /\ ~cb.request.isThirdParty

\* C28: whenever a response body is displayed for the selected request
\* (loadingBody false, responseBody non-null), it is the body of that
\* request: the content of the HAR entry kept under the request's id.
C28_DisplayedBodyIsSelectedBody ==
    (selectedRequest # None /\ ~loadingBody /\ responseBody # None) =>
        /\ MapHas(harRequestMap, selectedRequest[1].id)
        /\ responseBody = harRequestMap[selectedRequest[1].id].content

\* the step of the getHAR callback
GetHARStep == getHARPending /\ ~getHARPending'

\* C29: the getHAR callback loses nothing, every record that is in the
\* request list before the callback is in the list after it, and every
\* record in the list, the existing ones included, has an entry in
\* harRequestMap.
C29_GetHARLosesNothing ==
    /\ [](\A i \in 1..Len(requests) : MapHas(harRequestMap, requests[i].id))
    /\ [][GetHARStep =>
            \A i \in 1..Len(requests) :
                \E j \in 1..Len(requests') : requests'[j] = requests[i]]_vars

----------------------------------------------------------------------------
(* Further properties of the service-worker aggregator *)

\* C26: in every reachable state, the pageUrl of a session is the URL
\* stored for its tab (empty when none is stored), and every record of the
\* session has the isThirdParty and isTracker that classifyRequest gives
\* its URL against the session's pageUrl.
C26_SessionClassifiedAgainstItsPage ==
    \A t \in DOMAIN tabData :
        /\ tabData[t].pageUrl = IF t \in DOMAIN tabUrls THEN tabUrls[t] ELSE ""
        /\ \A i \in 1..Len(tabData[t].requests) :
              LET r == tabData[t].requests[i]
                  classification == classifyRequest(r.url, tabData[t].pageUrl)
              IN  /\ r.isThirdParty = classification.isThirdParty
                  /\ r.isTracker = classification.isTracker

\* a session of a navigated tab that holds a third-party tracker record and
\* a first-party record
C26_Witness ==
    \E t \in DOMAIN tabData :
        /\ t \in DOMAIN tabUrls
        /\ tabData[t].pageUrl # ""
        /\ \E i, j \in 1..Len(tabData[t].requests) :
              /\ tabData[t].requests[i].isThirdParty
              /\ tabData[t].requests[i].isTracker
              /\ ~tabData[t].requests[j].isThirdParty

\* the session and the stored page URL of a tab
sessionOf(td, tabId) == IF MapHas(td, tabId) THEN Some(td[tabId]) ELSE None

storedUrlOf(tu, tabId) == IF MapHas(tu, tabId) THEN Some(tu[tabId]) ELSE None

\* C27: the listener of an event or message that carries tabId t leaves the
\* session and the stored page URL of every other tab as they were, and the
\* listener of a webRequest event with a negative tabId changes no session.
C27_OtherTabsUntouched ==
    [][(lastEvent = None /\ lastEvent' # None) =>
          LET event == lastEvent'[1]
          IN  /\ event.tabId # None =>
                    \A other \in Tabs \ {event.tabId[1]} :
                        /\ sessionOf(tabData', other) = sessionOf(tabData, other)
                        /\ storedUrlOf(tabUrls', other) = storedUrlOf(tabUrls, other)
              /\ (event.kind \in WebRequestKinds /\ event.tabId[1] < 0) =>
                    tabData' = tabData]_vars

\* a navigation of one tab has just been handled while the other tab has a
\* stored page URL and a session with a record
C27_Witness ==
    /\ Handled("tab-navigated")
    /\ \E t \in Tabs, other \in Tabs :
          /\ other # t
          /\ lastEvent[1].tabId = Some(t)
          /\ MapHas(tabData, other)
          /\ MapHas(tabUrls, other)
          /\ tabData[other].requests # <<>>

----------------------------------------------------------------------------
(* Further properties of the privacy score *)

\* C30: the three penalties of calculatePrivacyScore sum to 100 at most, so
\* the score is 100 minus the three penalties, and the details are never
\* empty: when they hold no issue line, the penalties sum to 3 at most, the
\* score is 97 at least and the details are the positive note.
C30_PenaltiesWithinScale ==
    CalledFn("calculatePrivacyScore") =>
        LET result == call[1].result
            penalty == result.breakdown.trackerPenalty
                       + result.breakdown.thirdPartyPenalty
                       + result.breakdown.domainPenalty
            noIssueLine == \A i \in 1..Len(result.details) :
                               result.details[i] = PositiveNote
        IN  /\ penalty <= 100
            /\ result.score = 100 - penalty
            /\ result.details # <<>>
            /\ noIssueLine => /\ penalty <= 3
                              /\ result.score >= 97
                              /\ result.details = <<PositiveNote>>

\* a call for stats with no tracker, few third-party requests and six to
\* ten servers: a penalty without an issue line
C30_Witness ==
    /\ CalledFn("calculatePrivacyScore")
    /\ call[1].result.breakdown.domainPenalty = 3
    /\ call[1].result.score = 97
    /\ call[1].result.details = <<PositiveNote>>

====
